---- MODULE Spec2Model ----
(***************************************************************************)
(* A model of the span verification and validation core of                 *)
(* PeopleInfoExtraction: the span verifier (src/extraction/verifier.py),   *)
(* the validation report and batch summary (src/validation/models.py) and  *)
(* the Gemini validator (src/validation/gemini_validator.py).              *)
(*                                                                         *)
(* Text is a sequence of one-character strings.  Each subsystem has its    *)
(* own variables and its own specification; a specification leaves the     *)
(* variables of the other subsystems at their initial values.              *)
(***************************************************************************)
EXTENDS Integers, Sequences, FiniteSets, TLC

VARIABLES
    \* verify_span: its two arguments and the VerificationResult it returns
    full_text, span, result,
    \* verify_document: its two arguments and the triple it returns
    article, spans, verified_spans, failures, stats,
    \* a ValidationReport: its issues and its summary
    report,
    \* a GeminiBatchSummary, the report registered last, and a tally of the
    \* registered reports kept for the properties (no field of the program)
    batch, last_report, tally,
    \* GeminiFlashValidator.validate_extraction: how the model call ends, the
    \* response text, what its member list decodes to, and what the call yields
    call_mode, model_response, members, outcome, gemini_report,
    \* the Gemini batch runner: the report files of the output directory, the
    \* file _batch_summary.json, the locals of main, the runs started so far, and
    \* what the current run has done (kept for the properties)
    output_dir, summary_file, runner, runs, audit,
    \* validate_span: the span payload it is given and what the call yields
    span_payload, validation,
    \* run_verifier: the span files of the spans directory, and the position and
    \* the output files of main
    span_files, verifier_run,
    \* dedupe_spans: the spans it is given and what the call returns
    dedupe_input, dedupe_result,
    \* segment_sentences: the text it is given and what the call returns
    segment_text, segments,
    \* the NER pipeline: the backend asked for, which of the two optional backends
    \* initialize, the sentence and the number of entities the backend finds in
    \* it, what create_backend yields, and what extract returns
    ner_request, ner_available, ner_sentence, ner_found, ner_created, ner_extracted,
    \* PeopleValidator.validate_extraction: the passage text, the extracted
    \* people, how the completeness call to the external model ends, and what
    \* validate_extraction yields
    people_passage, people_extracted, people_call, people_result,
    \* SimpleRegexBackend.entities: the sentence it is given and what it returns
    simple_sentence, simple_entities,
    \* process_article: the article, the pattern of the regex detector, whether
    \* a NER pipeline (simple backend) is given, and what the call yields
    base_article, base_pattern, base_ner, base_result,
    \* _normalize_phone: the text the phone pattern matched, and what the
    \* normalizer returns
    phone_match, phone_result,
    \* HttpFetcher.get: the fetcher and how Python runs, and the position of
    \* the call
    http_fetcher, http_call,
    \* scripts/workflow_b_validator.py: the models named in the input files,
    \* the files of the output directory, and the position of the run
    reports_input, reports_dir, reports_run

verifySpanVars == <<full_text, span, result>>
verifyDocVars == <<article, spans, verified_spans, failures, stats>>
reportVars == <<report>>
batchVars == <<batch, last_report, tally>>
geminiVars == <<call_mode, model_response, members, outcome, gemini_report>>
runnerVars == <<output_dir, summary_file, runner, runs, audit>>
validateVars == <<span_payload, validation>>
runVerifierVars == <<span_files, verifier_run>>
dedupeVars == <<dedupe_input, dedupe_result>>
segmentVars == <<segment_text, segments>>
nerVars ==
    <<ner_request, ner_available, ner_sentence, ner_found, ner_created, ner_extracted>>
peopleVars == <<people_passage, people_extracted, people_call, people_result>>
simpleVars == <<simple_sentence, simple_entities>>
baselineVars == <<base_article, base_pattern, base_ner, base_result>>
phoneVars == <<phone_match, phone_result>>
httpVars == <<http_fetcher, http_call>>
ruleBatchVars == <<reports_input, reports_dir, reports_run>>

vars ==
    <<verifySpanVars, verifyDocVars, reportVars, batchVars, geminiVars, runnerVars,
      validateVars,
      runVerifierVars,
      dedupeVars,
      segmentVars,
      nerVars,
      peopleVars,
      simpleVars,
      baselineVars,
      phoneVars,
      httpVars,
      ruleBatchVars>>

(***************************************************************************)
(* Bounds                                                                  *)
(***************************************************************************)
\* longest document text given to verify_span
MaxTextLen == 3
\* longest claimed span text
MaxSpanTextLen == 2
\* largest span offset (larger than MaxTextLen, so that spans run out of bounds)
MaxOffset == 4
\* most spans of one document given to verify_document
MaxSpans == 2
\* most paragraphs of one article
MaxParagraphs == 2
\* most add_issue calls on one ValidationReport
MaxIssues == 3
\* most reports registered into one GeminiBatchSummary
MaxReports == 3
\* most issues of one Gemini report
MaxReportIssues == 1
\* longest response text of the external model, in tokens
MaxResponseLen == 5
\* most entries of the issues list and of the missing_people list of a payload
MaxPayloadItems == 1
\* input files of the Gemini batch runner
MaxUnits == 2
\* runs of the Gemini batch runner over the same input files
MaxRuns == 2
\* largest offset of a span payload given to validate_span
MaxPayloadOffset == 2
\* span files of the spans directory given to run_verifier
MaxSpanFiles == 2
\* most span payloads of one span file
MaxFileSpans == 2
\* most spans given to dedupe_spans
MaxDedupeSpans == 3
\* longest text given to segment_sentences
MaxSegmentLen == 4
\* longest sentence given to NerPipeline.extract
MaxNerSentenceLen == 1
\* most entities a backend finds in one sentence
MaxEntities == 2
\* longest passage given to PeopleValidator.validate_extraction
MaxPassageLen == 3
\* longest claimed text of a field of an extracted person
MaxClaimLen == 2
\* largest claimed offset of a field (larger than MaxPassageLen)
MaxClaimOffset == 4
\* most extracted people of one passage
MaxPeople == 1
\* most names of the missing_people list the external model returns
MaxMissingNames == 1
\* most words of a sentence given to SimpleRegexBackend.entities
MaxWords == 4
\* longest paragraph of an article given to process_article
MaxParagraphLen == 4
\* most stored passages of an article
MaxPassages == 1
\* most matches of the detector pattern in one sentence
MaxMatches == 1
\* largest max_retries of a fetcher
MaxRetries == 3
\* largest backoff_seconds of a fetcher
MaxBackoff == 3
\* most runs of the rule-based batch validator over one output directory
MaxValidatorRuns == 2

(***************************************************************************)
(* Text helpers                                                            *)
(***************************************************************************)
\* the characters of the model: a letter and two whitespace characters
Alphabet == {"a", " ", "\n"}

SeqsUpTo(S, n) == UNION {[1..k -> S] : k \in 0..n}

Min(a, b) == IF a < b THEN a ELSE b

\* a character the regular expression \s matches
IsSpace(c) == c \in {" ", "\n"}

RECURSIVE LStrip(_)
LStrip(s) ==
    IF s = <<>> THEN <<>>
    ELSE IF IsSpace(Head(s)) THEN LStrip(Tail(s)) ELSE s

RECURSIVE RStrip(_)
RStrip(s) ==
    IF s = <<>> THEN <<>>
    ELSE IF IsSpace(s[Len(s)]) THEN RStrip(SubSeq(s, 1, Len(s) - 1)) ELSE s

\* str.strip()
Strip(s) == RStrip(LStrip(s))

\* WHITESPACE_RE.sub(" ", value): every maximal run of whitespace becomes one " "
RECURSIVE CollapseSpaces(_)
CollapseSpaces(s) ==
    IF s = <<>> THEN <<>>
    ELSE IF IsSpace(Head(s))
         THEN <<" ">> \o CollapseSpaces(LStrip(Tail(s)))
         ELSE <<Head(s)>> \o CollapseSpaces(Tail(s))

\* _clean_text
CleanText(value) == Strip(CollapseSpaces(value))

\* text[start:end] for non-negative start and end (Python clips both to len)
Slice(text, start, end) ==
    LET lo == Min(start, Len(text))
        hi == Min(end, Len(text))
    IN  IF lo >= hi THEN <<>> ELSE SubSeq(text, lo + 1, hi)

(***************************************************************************)
(* verify_span                                                             *)
(***************************************************************************)
\* a validated SpanModel: text of at least one character, offsets >= 0;
\* verifier_pass is the attribute verify_span adds on success
SpanModel(texts, offsets) ==
    [text : texts \ {<<>>}, start : offsets, end : offsets, verifier_pass : {FALSE}]

NoSpan == [text |-> <<>>, start |-> 0, end |-> 0, verifier_pass |-> FALSE]

VerificationResult(s, v, r) == [span |-> s, verified |-> v, reason |-> r]

NoResult == VerificationResult(NoSpan, FALSE, "not_called")

\* verify_span with the out-of-bounds check after the empty-slice check
verify_span_slice_first(s, text) ==
    LET doc_slice == Slice(text, s.start, s.end)
    IN  IF doc_slice = <<>> THEN VerificationResult(s, FALSE, "empty_slice")
        ELSE IF s.end > Len(text) THEN VerificationResult(s, FALSE, "out_of_bounds")
        ELSE IF CleanText(doc_slice) # CleanText(s.text)
             THEN VerificationResult(s, FALSE, "text_mismatch")
        ELSE VerificationResult([s EXCEPT !.verifier_pass = TRUE], TRUE, "none")

\* verify_span comparing the slice and the claimed text as they are
verify_span_verbatim(s, text) ==
    LET doc_slice == Slice(text, s.start, s.end)
    IN  IF s.end > Len(text) THEN VerificationResult(s, FALSE, "out_of_bounds")
        ELSE IF doc_slice = <<>> THEN VerificationResult(s, FALSE, "empty_slice")
        ELSE IF doc_slice # s.text
             THEN VerificationResult(s, FALSE, "text_mismatch")
        ELSE VerificationResult([s EXCEPT !.verifier_pass = TRUE], TRUE, "none")

\* verify_span: reason "none" stands for reason=None
verify_span(s, text) ==
    LET doc_slice == Slice(text, s.start, s.end)
    IN  IF s.end > Len(text) THEN VerificationResult(s, FALSE, "out_of_bounds")
        ELSE IF doc_slice = <<>> THEN VerificationResult(s, FALSE, "empty_slice")
        ELSE IF CleanText(doc_slice) # CleanText(s.text)
             THEN VerificationResult(s, FALSE, "text_mismatch")
        ELSE VerificationResult([s EXCEPT !.verifier_pass = TRUE], TRUE, "none")

VerifySpanTexts == SeqsUpTo(Alphabet, MaxTextLen)
VerifySpanSpans == SpanModel(SeqsUpTo(Alphabet, MaxSpanTextLen), 0..MaxOffset)

\* one call verify_span(span, full_text=full_text)
VerifySpan ==
    /\ result = NoResult
    /\ result' = verify_span(span, full_text)
    /\ UNCHANGED <<full_text, span>>
    /\ UNCHANGED <<verifyDocVars, reportVars, batchVars, geminiVars, runnerVars, validateVars, runVerifierVars, dedupeVars, segmentVars, nerVars, peopleVars, simpleVars, baselineVars, phoneVars, httpVars, ruleBatchVars>>

IdleVerifySpan ==
    /\ full_text = <<>>
    /\ span = NoSpan
    /\ result = NoResult

InputsVerifySpan ==
    /\ full_text \in VerifySpanTexts
    /\ span \in VerifySpanSpans
    /\ result = NoResult

(***************************************************************************)
(* verify_document                                                         *)
(***************************************************************************)
\* "\n\n".join(paragraphs)
RECURSIVE JoinParagraphs(_)
JoinParagraphs(ps) ==
    IF ps = <<>> THEN <<>>
    ELSE IF Len(ps) = 1 THEN ps[1]
    ELSE ps[1] \o <<"\n", "\n">> \o JoinParagraphs(Tail(ps))

\* build_full_text
build_full_text(art) == JoinParagraphs(art)

\* _summarize_failures: the histogram of the reasons of the failures
\* (a key is present only when counted; result.reason or "unknown")
summarize_failures(fs) ==
    LET Key(f) == IF f.reason = "none" THEN "unknown" ELSE f.reason
        keys == {Key(fs[i]) : i \in 1..Len(fs)}
    IN  [k \in keys |-> Cardinality({i \in 1..Len(fs) : Key(fs[i]) = k})]

\* _aggregate_stats (the per-type breakdown is left out: spans carry no type here)
aggregate_stats(original, verified, fs) ==
    [input_spans |-> Len(original),
     verified_spans |-> Len(verified),
     dropped_spans |-> Len(fs),
     failure_reasons |-> summarize_failures(fs)]

\* the loop of verify_document over the spans, in order
RECURSIVE VerifyLoop(_, _, _, _)
VerifyLoop(rest, text, verified, fs) ==
    IF rest = <<>> THEN [verified |-> verified, failures |-> fs]
    ELSE LET r == verify_span(Head(rest), text)
         IN  IF r.verified
             THEN VerifyLoop(Tail(rest), text, Append(verified, r.span), fs)
             ELSE VerifyLoop(Tail(rest), text, verified, Append(fs, r))

\* verify_document that keeps no record of a span whose slice is empty
verify_document_drops_empty(art, sps) ==
    LET text == build_full_text(art)
        out == VerifyLoop(sps, text, <<>>, <<>>)
        kept == SelectSeq(out.failures, LAMBDA f : f.reason # "empty_slice")
    IN  [verified |-> out.verified,
         failures |-> kept,
         stats |-> aggregate_stats(sps, out.verified, kept)]

\* verify_document
verify_document(art, sps) ==
    LET text == build_full_text(art)
        out == VerifyLoop(sps, text, <<>>, <<>>)
    IN  [verified |-> out.verified,
         failures |-> out.failures,
         stats |-> aggregate_stats(sps, out.verified, out.failures)]

\* the paragraphs, claimed texts and offsets the documents are built from
DocParagraphs == {<<"a">>, <<"a", " ", "a">>}
DocSpanTexts == {<<"a">>, <<"a", " ", "a">>}
DocOffsets == {0, 1, 3, 4}

DocArticles == SeqsUpTo(DocParagraphs, MaxParagraphs)
DocSpans == SeqsUpTo(SpanModel(DocSpanTexts, DocOffsets), MaxSpans)

\* no statistics yet: verify_document has not been called
NoStats ==
    [input_spans |-> -1, verified_spans |-> 0, dropped_spans |-> 0,
     failure_reasons |-> summarize_failures(<<>>)]

\* one call verify_document(article, spans)
VerifyDocument ==
    /\ stats = NoStats
    /\ LET out == verify_document(article, spans)
       IN  /\ verified_spans' = out.verified
           /\ failures' = out.failures
           /\ stats' = out.stats
    /\ UNCHANGED <<article, spans>>
    /\ UNCHANGED <<verifySpanVars, reportVars, batchVars, geminiVars, runnerVars, validateVars, runVerifierVars, dedupeVars, segmentVars, nerVars, peopleVars, simpleVars, baselineVars, phoneVars, httpVars, ruleBatchVars>>

IdleVerifyDocument ==
    /\ article = <<>>
    /\ spans = <<>>
    /\ verified_spans = <<>>
    /\ failures = <<>>
    /\ stats = NoStats

InputsVerifyDocument ==
    /\ article \in DocArticles
    /\ spans \in DocSpans
    /\ verified_spans = <<>>
    /\ failures = <<>>
    /\ stats = NoStats

(***************************************************************************)
(* ValidationReport.add_issue                                              *)
(***************************************************************************)
\* IssueType and IssueSeverity
IssueType ==
    {"hallucination", "wrong_position", "missing_entity", "schema_violation",
     "wrong_law_article", "incomplete_extraction"}
IssueSeverity == {"critical", "error", "warning", "info"}

\* ValidationIssue (the fields add_issue reads)
ValidationIssue == [type : IssueType, severity : IssueSeverity]

\* the summary a report is created with: total_issues_found=0 and the defaults
ValidationSummary ==
    [total_issues_found |-> 0,
     critical_issues |-> 0, errors |-> 0, warnings |-> 0, info_issues |-> 0,
     hallucinations |-> 0, wrong_positions |-> 0, missing_entities |-> 0,
     schema_violations |-> 0, wrong_law_articles |-> 0]

\* ValidationReport as PeopleValidator creates it
ValidationReport == [issues |-> <<>>, summary |-> ValidationSummary]

\* the severity counts of add_issue
CountSeverity(s, issue) ==
    IF issue.severity = "critical" THEN [s EXCEPT !.critical_issues = @ + 1]
    ELSE IF issue.severity = "error" THEN [s EXCEPT !.errors = @ + 1]
    ELSE IF issue.severity = "warning" THEN [s EXCEPT !.warnings = @ + 1]
    ELSE IF issue.severity = "info" THEN [s EXCEPT !.info_issues = @ + 1]
    ELSE s

\* the type counts of add_issue
CountType(s, issue) ==
    IF issue.type = "hallucination" THEN [s EXCEPT !.hallucinations = @ + 1]
    ELSE IF issue.type = "wrong_position" THEN [s EXCEPT !.wrong_positions = @ + 1]
    ELSE IF issue.type = "missing_entity" THEN [s EXCEPT !.missing_entities = @ + 1]
    ELSE IF issue.type = "schema_violation" THEN [s EXCEPT !.schema_violations = @ + 1]
    ELSE IF issue.type = "wrong_law_article" THEN [s EXCEPT !.wrong_law_articles = @ + 1]
    ELSE s

\* add_issue without the branch for severity info
add_issue_info_uncounted(rep, issue) ==
    [issues |-> Append(rep.issues, issue),
     summary |->
        CountType(
            IF issue.severity = "info"
            THEN [rep.summary EXCEPT !.total_issues_found = @ + 1]
            ELSE CountSeverity([rep.summary EXCEPT !.total_issues_found = @ + 1], issue),
            issue)]

\* ValidationReport.add_issue
add_issue(rep, issue) ==
    [issues |-> Append(rep.issues, issue),
     summary |->
        CountType(
            CountSeverity([rep.summary EXCEPT !.total_issues_found = @ + 1], issue),
            issue)]

\* one call report.add_issue(issue)
AddIssue ==
    /\ Len(report.issues) < MaxIssues
    /\ \E issue \in ValidationIssue : report' = add_issue(report, issue)
    /\ UNCHANGED <<verifySpanVars, verifyDocVars, batchVars, geminiVars, runnerVars, validateVars, runVerifierVars, dedupeVars, segmentVars, nerVars, peopleVars, simpleVars, baselineVars, phoneVars, httpVars, ruleBatchVars>>

IdleReport == report = ValidationReport

(***************************************************************************)
(* GeminiBatchSummary.register_report                                      *)
(***************************************************************************)
GeminiVerdict == {"supported", "unsure", "unsupported"}

\* GeminiIssueSeverity, and "none" for an issue without severity
GeminiSeverity == {"none", "critical", "warning", "info"}

\* the fields of a GeminiValidationReport that register_report reads: usable is
\* "none", "true" or "false"; issues are given by their severities; missing_people
\* by the names
GeminiValidationReport ==
    [verdict : GeminiVerdict,
     usable : {"none", "true", "false"},
     issues : SeqsUpTo(GeminiSeverity, MaxReportIssues),
     missing_people : {<<>>, <<"B">>}]

NoReport ==
    [verdict |-> "unsure", usable |-> "none", issues |-> <<>>, missing_people |-> <<>>]

\* a fresh GeminiBatchSummary; percentages are in hundredths of a percent
GeminiBatchSummary ==
    [total_files_processed |-> 0, total_supported |-> 0, total_unsure |-> 0,
     total_unsupported |-> 0, total_issues |-> 0, total_missing_people |-> 0,
     total_usable |-> 0,
     usable_percentage |-> 0, supported_percentage |-> 0,
     unsure_percentage |-> 0, unsupported_percentage |-> 0]

\* round((count / total) * 100, 2) in hundredths of a percent: the nearest
\* hundredth, a tie going to the even one
RoundPercentage(count, total) ==
    LET scaled == 10000 * count
        q == scaled \div total
        r == scaled % total
    IN  IF 2 * r < total THEN q
        ELSE IF 2 * r > total THEN q + 1
        ELSE IF q % 2 = 0 THEN q ELSE q + 1

\* _update_percentages
update_percentages(b) ==
    LET total == b.total_files_processed
    IN  IF total <= 0
        THEN [b EXCEPT !.usable_percentage = 0, !.supported_percentage = 0,
                       !.unsure_percentage = 0, !.unsupported_percentage = 0]
        ELSE [b EXCEPT
                !.usable_percentage = RoundPercentage(b.total_usable, total),
                !.supported_percentage = RoundPercentage(b.total_supported, total),
                !.unsure_percentage = RoundPercentage(b.total_unsure, total),
                !.unsupported_percentage = RoundPercentage(b.total_unsupported, total)]

\* _has_critical_issue taking an issue without severity for harmless
has_critical_issue_unset_ignored(issues) ==
    \E i \in 1..Len(issues) : issues[i] = "critical"

\* _has_critical_issue: an issue without severity counts as critical
has_critical_issue(issues) ==
    \E i \in 1..Len(issues) :
        LET severity == IF issues[i] = "none" THEN "critical" ELSE issues[i]
        IN  severity = "critical"

\* _is_report_usable
is_report_usable(rep) ==
    /\ rep.verdict = "supported"
    /\ rep.missing_people = <<>>
    /\ ~has_critical_issue(rep.issues)

\* _effective_usable taking the model's flag or the rules
effective_usable_widening(rep) ==
    LET rule_usable == is_report_usable(rep)
    IN  IF rep.usable = "none" THEN rule_usable
        ELSE rep.usable = "true" \/ rule_usable

\* _effective_usable letting a reviewer's mark "invalid" veto the report
effective_usable_unless_marked_invalid(rep) ==
    LET rule_usable == is_report_usable(rep)
    IN  IF "manual_status" \in DOMAIN rep /\ rep.manual_status = "invalid" THEN FALSE
        ELSE IF rep.usable = "none" THEN rule_usable
        ELSE rep.usable = "true" /\ rule_usable

\* _effective_usable
effective_usable(rep) ==
    LET rule_usable == is_report_usable(rep)
    IN  IF rep.usable = "none" THEN rule_usable
        ELSE rep.usable = "true" /\ rule_usable

\* the counters of register_report, before the percentages
CountReport(b, rep) ==
    LET b1 == [b EXCEPT
                 !.total_files_processed = @ + 1,
                 !.total_issues = @ + Len(rep.issues),
                 !.total_missing_people = @ + Len(rep.missing_people)]
        b2 == IF effective_usable(rep)
              THEN [b1 EXCEPT !.total_usable = @ + 1] ELSE b1
    IN  IF rep.verdict = "supported" THEN [b2 EXCEPT !.total_supported = @ + 1]
        ELSE IF rep.verdict = "unsure" THEN [b2 EXCEPT !.total_unsure = @ + 1]
        ELSE [b2 EXCEPT !.total_unsupported = @ + 1]

\* register_report recomputing the percentages before it counts the report
register_report_stale_percentages(b, rep) == CountReport(update_percentages(b), rep)

\* register_report
register_report(b, rep) == update_percentages(CountReport(b, rep))

\* usable as the batch-summary claim words it: supported, no missing people and no
\* issue of severity critical
ClaimedUsable(rep) ==
    /\ rep.verdict = "supported"
    /\ rep.missing_people = <<>>
    /\ \A i \in 1..Len(rep.issues) : rep.issues[i] # "critical"

\* rule-usable: supported, no missing people, no issue of critical or unset severity
RuleUsable(rep) ==
    /\ rep.verdict = "supported"
    /\ rep.missing_people = <<>>
    /\ \A i \in 1..Len(rep.issues) : rep.issues[i] \notin {"critical", "none"}

NoTally == [claimed_usable |-> 0, rule_usable_unvetoed |-> 0]

\* one call summary.register_report(report); the tally counts the registered
\* reports that are usable as claimed, and those that are rule-usable and whose
\* usable flag is not False
RegisterReport ==
    /\ batch.total_files_processed < MaxReports
    /\ \E rep \in GeminiValidationReport :
          /\ batch' = register_report(batch, rep)
          /\ last_report' = rep
          /\ tally' =
                [claimed_usable |->
                    tally.claimed_usable + (IF ClaimedUsable(rep) THEN 1 ELSE 0),
                 rule_usable_unvetoed |->
                    tally.rule_usable_unvetoed
                    + (IF RuleUsable(rep) /\ rep.usable # "false" THEN 1 ELSE 0)]
    /\ UNCHANGED <<verifySpanVars, verifyDocVars, reportVars, geminiVars, runnerVars, validateVars, runVerifierVars, dedupeVars, segmentVars, nerVars, peopleVars, simpleVars, baselineVars, phoneVars, httpVars, ruleBatchVars>>

IdleBatch ==
    /\ batch = GeminiBatchSummary
    /\ last_report = NoReport
    /\ tally = NoTally

(***************************************************************************)
(* GeminiFlashValidator: the response text                                 *)
(*                                                                         *)
(* A response is a sequence of tokens: "fence" is a code fence (three back  *)
(* quotes), "\n" a line break, "{" and "}" braces, "[]" a complete JSON     *)
(* array, "m" a well-formed list of object members (what it decodes to is  *)
(* the variable members) and "x" a word that is no JSON.                   *)
(***************************************************************************)
ResponseTokens == {"fence", "\n", "{", "}", "[]", "m", "x"}

\* str.splitlines() of a text that does not end with a line break
RECURSIVE SplitLines(_)
SplitLines(text) ==
    IF \A i \in 1..Len(text) : text[i] # "\n" THEN <<text>>
    ELSE LET k == CHOOSE i \in 1..Len(text) :
                     text[i] = "\n" /\ \A j \in 1..(i - 1) : text[j] # "\n"
         IN  <<SubSeq(text, 1, k - 1)>> \o SplitLines(SubSeq(text, k + 1, Len(text)))

\* "\n".join(lines)
RECURSIVE JoinLines(_)
JoinLines(lines) ==
    IF lines = <<>> THEN <<>>
    ELSE IF Len(lines) = 1 THEN lines[1]
    ELSE lines[1] \o <<"\n">> \o JoinLines(Tail(lines))

\* _strip_code_fences
strip_code_fences(text) ==
    LET stripped == Strip(text)
    IN  IF stripped # <<>> /\ Head(stripped) = "fence"
        THEN LET rest == Tail(SplitLines(stripped))
                 body == IF rest # <<>> /\ Strip(rest[Len(rest)]) = <<"fence">>
                         THEN SubSeq(rest, 1, Len(rest) - 1)
                         ELSE rest
             IN  Strip(JoinLines(body))
        ELSE stripped

\* _extract_json_block or "": from the first "{" to the last "}" after it
extract_json_block(text) ==
    LET opens == {i \in 1..Len(text) : text[i] = "{"}
        closes == {i \in 1..Len(text) : text[i] = "}"}
    IN  IF opens = {} THEN <<>>
        ELSE LET first == CHOOSE i \in opens : \A j \in opens : i <= j
                 after == {j \in closes : j > first}
             IN  IF after = {} THEN <<>>
                 ELSE LET last == CHOOSE j \in after : \A k \in after : k <= j
                      IN  SubSeq(text, first, last)

\* the tokens of a text without the white space between them
Significant(text) == SelectSeq(text, LAMBDA c : ~IsSpace(c))

\* what json.loads makes of a candidate: "error" for JSONDecodeError, "list" for
\* a JSON value that is no object, "dict" for an object (content the members)
JsonLoads(candidate, content) ==
    LET toks == Significant(candidate)
    IN  IF toks = <<"[]">> THEN [content EXCEPT !.kind = "list"]
        ELSE IF toks = <<"{", "}">>
             THEN [kind |-> "dict", verdict |-> "absent",
                   issues |-> [kind |-> "absent", items |-> <<>>],
                   missing_people |-> [kind |-> "absent", items |-> <<>>]]
        ELSE IF toks = <<"{", "m", "}">> THEN [content EXCEPT !.kind = "dict"]
        ELSE [content EXCEPT !.kind = "error"]

\* the loop of _parse_model_response over the candidates
RECURSIVE ParseAttempts(_, _)
ParseAttempts(candidates, content) ==
    IF candidates = <<>> THEN [content EXCEPT !.kind = "error"]
    ELSE LET candidate == Strip(Head(candidates))
         IN  IF candidate = <<>> THEN ParseAttempts(Tail(candidates), content)
             ELSE LET value == JsonLoads(candidate, content)
                  IN  IF value.kind # "error" THEN value
                      ELSE ParseAttempts(Tail(candidates), content)

\* _parse_model_response handing back an empty object where it should raise
parse_model_response_lenient(text, content) ==
    LET value == ParseAttempts(
                    <<text, strip_code_fences(text), extract_json_block(text)>>, content)
    IN  IF value.kind = "error" THEN JsonLoads(<<"{", "}">>, content) ELSE value

\* _parse_model_response: kind "error" stands for raising GeminiValidatorError
parse_model_response(text, content) ==
    ParseAttempts(<<text, strip_code_fences(text), extract_json_block(text)>>, content)

(***************************************************************************)
(* GeminiFlashValidator: the payload and the report                        *)
(***************************************************************************)
\* values of a payload field that should be a string: "absent" for a missing key
\* (or null), "#5" for a number, anything else the string itself
PayloadVerdicts ==
    {"absent", "supported", "unsure", "unsupported", "Supported", "maybe", "#5"}
PayloadIssueTypes == {"absent", "hallucination", "Conflict", "weird", "#5"}
PayloadDescriptions == {"absent", "text", "#5"}
PayloadNames == {"absent", "B", "#5"}

\* an entry of the issues list: an object, or something else
PayloadIssues ==
    [kind : {"dict"}, type : PayloadIssueTypes, description : PayloadDescriptions]
    \cup {[kind |-> "notdict", type |-> "absent", description |-> "absent"]}

\* an entry of the missing_people list
PayloadPeople ==
    [kind : {"dict"}, name : PayloadNames] \cup {[kind |-> "notdict", name |-> "absent"]}

\* a payload field that should be a list: missing, something that is no list, or a list
PayloadList(entries) ==
    [kind : {"list"}, items : SeqsUpTo(entries, MaxPayloadItems)]
    \cup {[kind |-> k, items |-> <<>>] : k \in {"absent", "notlist"}}

\* what the member list "m" of a response may decode to
Payloads ==
    [kind : {"dict"}, verdict : PayloadVerdicts,
     issues : PayloadList(PayloadIssues), missing_people : PayloadList(PayloadPeople)]

\* str.lower() on the strings of the model
Lower(str) ==
    IF str = "Supported" THEN "supported"
    ELSE IF str = "Conflict" THEN "conflict"
    ELSE str

\* GeminiIssueType
GeminiIssueType == {"hallucination", "missing_info", "conflict", "parsing_error", "other"}

\* _coerce_verdict (on a value that is missing or a string)
coerce_verdict(value) ==
    IF value = "absent" THEN "unsure"
    ELSE IF Lower(value) \in GeminiVerdict THEN Lower(value)
    ELSE "unsure"

\* _coerce_issue_type (on a value that is missing or a string)
coerce_issue_type(value) ==
    IF value = "absent" THEN "other"
    ELSE IF Lower(value) \in GeminiIssueType THEN Lower(value)
    ELSE "other"

\* an issue built with the severity warning where the code sets none
gemini_issue_severity_warning(type) == [type |-> type, severity |-> "warning"]

\* GeminiValidationIssue as the validator builds it: severity is never given
GeminiValidationIssue(type) == [type |-> type, severity |-> "none"]

\* the report of the validator: verdict, manual_status and usable (neither is
\* ever given: both are None), issues, the names of the missing people
GeminiReport(verdict, issues, missing) ==
    [verdict |-> verdict, manual_status |-> "none", usable |-> "none",
     issues |-> issues, missing_people |-> missing]

NoGeminiReport == GeminiReport("unsure", <<>>, <<>>)

\* the error an entry of the issues list raises, "none" if it raises nothing:
\* value.lower() on a number, a description that is no string
IssueError(item) ==
    IF item.kind # "dict" THEN "none"
    ELSE IF item.type = "#5" THEN "AttributeError"
    ELSE IF item.description = "#5" THEN "ValidationError"
    ELSE "none"

\* the error an entry of the missing_people list raises: a name that is no string
PersonError(person) ==
    IF person.kind = "dict" /\ person.name = "#5" THEN "ValidationError" ELSE "none"

\* the first error of a list of errors, "none" if there is none
FirstError(errors) ==
    IF \A i \in 1..Len(errors) : errors[i] = "none" THEN "none"
    ELSE errors[CHOOSE i \in 1..Len(errors) :
                    errors[i] # "none" /\ \A j \in 1..(i - 1) : errors[j] = "none"]

\* the issues built from the entries that are objects
RECURSIVE BuildIssues(_)
BuildIssues(items) ==
    IF items = <<>> THEN <<>>
    ELSE IF Head(items).kind = "dict"
         THEN <<GeminiValidationIssue(coerce_issue_type(Head(items).type))>>
              \o BuildIssues(Tail(items))
         ELSE BuildIssues(Tail(items))

\* the missing people built from the entries that are objects with a name
RECURSIVE BuildPeople(_)
BuildPeople(items) ==
    IF items = <<>> THEN <<>>
    ELSE IF Head(items).kind = "dict" /\ Head(items).name # "absent"
         THEN <<Head(items).name>> \o BuildPeople(Tail(items))
         ELSE BuildPeople(Tail(items))

Returned(rep) == [outcome |-> "returned", report |-> rep]
Raised(error) == [outcome |-> error, report |-> NoGeminiReport]

\* _build_report_from_payload; payload.get on a value that is no object raises
build_report_from_payload(payload) ==
    IF payload.kind # "dict" THEN Raised("AttributeError")
    ELSE IF payload.verdict = "#5" THEN Raised("AttributeError")
    ELSE LET issue_items == IF payload.issues.kind = "list"
                            THEN payload.issues.items ELSE <<>>
             people_items == IF payload.missing_people.kind = "list"
                             THEN payload.missing_people.items ELSE <<>>
             issue_error ==
                 FirstError([i \in 1..Len(issue_items) |-> IssueError(issue_items[i])])
             person_error ==
                 FirstError([i \in 1..Len(people_items) |-> PersonError(people_items[i])])
         IN  IF issue_error # "none" THEN Raised(issue_error)
             ELSE IF person_error # "none" THEN Raised(person_error)
             ELSE Returned(GeminiReport(coerce_verdict(payload.verdict),
                                        BuildIssues(issue_items),
                                        BuildPeople(people_items)))

\* the mock payload of a dry run
DryRunPayload ==
    [kind |-> "dict", verdict |-> "unsure",
     issues |-> [kind |-> "list",
                 items |-> <<[kind |-> "dict", type |-> "other", description |-> "text"]>>],
     missing_people |-> [kind |-> "list", items |-> <<>>]]

\* the report of the except branch of validate_extraction
ParsingErrorReport ==
    GeminiReport("unsure", <<GeminiValidationIssue("parsing_error")>>, <<>>)

\* validate_extraction: a dry run answers the mock, a failed request raises
\* GeminiValidatorError, and so does a text that does not parse
validate_extraction(mode, text, content) ==
    IF mode = "request_failed" THEN Returned(ParsingErrorReport)
    ELSE LET parsed == IF mode = "dry_run"
                       THEN parse_model_response(<<"{", "m", "}">>, DryRunPayload)
                       ELSE parse_model_response(text, content)
         IN  IF parsed.kind = "error" THEN Returned(ParsingErrorReport)
             ELSE build_report_from_payload(parsed)

\* one call validator.validate_extraction(...)
ValidateExtraction ==
    /\ outcome = "not_called"
    /\ LET out == validate_extraction(call_mode, model_response, members)
       IN  /\ outcome' = out.outcome
           /\ gemini_report' = out.report
    /\ UNCHANGED <<call_mode, model_response, members>>
    /\ UNCHANGED <<verifySpanVars, verifyDocVars, reportVars, batchVars, runnerVars, validateVars, runVerifierVars, dedupeVars, segmentVars, nerVars, peopleVars, simpleVars, baselineVars, phoneVars, httpVars, ruleBatchVars>>

\* a complete, well-typed payload
PlainPayload ==
    [kind |-> "dict", verdict |-> "supported",
     issues |-> [kind |-> "list", items |-> <<>>],
     missing_people |-> [kind |-> "list", items |-> <<>>]]

IdleGemini ==
    /\ call_mode = "dry_run"
    /\ model_response = <<>>
    /\ members = PlainPayload
    /\ outcome = "not_called"
    /\ gemini_report = NoGeminiReport

\* the texts the model may answer, none of them empty
ResponseTexts == SeqsUpTo(ResponseTokens, MaxResponseLen) \ {<<>>}

\* every response text with a plain payload, every payload in a bare and in a
\* wrapped object, a dry run, a failed request
InputsGemini ==
    /\ outcome = "not_called"
    /\ gemini_report = NoGeminiReport
    /\ \/ /\ call_mode = "text"
          /\ model_response \in ResponseTexts
          /\ members = PlainPayload
       \/ /\ call_mode = "text"
          /\ model_response \in {<<"{", "m", "}">>, <<"x", "\n", "{", "m", "}">>}
          /\ members \in Payloads
       \/ /\ call_mode \in {"dry_run", "request_failed"}
          /\ model_response = <<>>
          /\ members = PlainPayload

(***************************************************************************)
(* The Gemini batch runner (scripts/workflow_b_gemini_validator.py)        *)
(*                                                                         *)
(* The input directory holds the files 1..MaxUnits, in the sorted order of *)
(* json_files.  The output directory holds at most one report per input    *)
(* file, under the same name, and the file _batch_summary.json.            *)
(***************************************************************************)
Units == 1..MaxUnits

\* a path of the output directory: whether a file is there, and the report in it
ReportFile(rep) == [exists |-> TRUE, report |-> rep]

\* a payload with a missing person
MissingPersonPayload ==
    [kind |-> "dict", verdict |-> "unsupported",
     issues |-> [kind |-> "list", items |-> <<>>],
     missing_people |-> [kind |-> "list",
                         items |-> <<[kind |-> "dict", name |-> "B"]>>]]

\* what processing one input file may meet: an input file that does not load, a
\* request to the external model that fails, or a response text of the model
UnitCalls ==
    {[mode |-> "unreadable", text |-> <<>>, content |-> PlainPayload],
     [mode |-> "request_failed", text |-> <<>>, content |-> PlainPayload],
     [mode |-> "text", text |-> <<"{", "m", "}">>, content |-> PlainPayload],
     [mode |-> "text", text |-> <<"{", "m", "}">>, content |-> MissingPersonPayload],
     [mode |-> "text", text |-> <<"x">>, content |-> PlainPayload],
     [mode |-> "text", text |-> <<"[]">>, content |-> PlainPayload]}

\* ManualValidationStatus, and "none" for a report that carries no mark
ManualStatus == {"none", "valid", "invalid"}

\* report.model_dump(mode="json") read back by model_validate: the fields that
\* register_report reads, each issue by its severity, and manual_status
StoredReport(rep) ==
    [verdict |-> rep.verdict, manual_status |-> rep.manual_status,
     usable |-> rep.usable,
     issues |-> [i \in 1..Len(rep.issues) |-> rep.issues[i].severity],
     missing_people |-> rep.missing_people]

NoFile == [exists |-> FALSE, report |-> StoredReport(NoGeminiReport)]

\* process_file up to the report: load_extraction_file, then validate_extraction
process_file(call) ==
    IF call.mode = "unreadable" THEN Raised("JSONDecodeError")
    ELSE validate_extraction(call.mode, call.text, call.content)

\* the loop of build_batch_summary over the report files, in sorted order
RECURSIVE ReplayReports(_, _, _)
ReplayReports(dir, unit, summary) ==
    IF unit > MaxUnits THEN summary
    ELSE ReplayReports(dir, unit + 1,
                       IF dir[unit].exists
                       THEN register_report(summary, dir[unit].report)
                       ELSE summary)

\* build_batch_summary: the summary it writes and returns
build_batch_summary(dir) == ReplayReports(dir, 1, GeminiBatchSummary)

\* main never skipping a file
skip_unit_never(skip_existing, file) == FALSE

\* main: skip_existing and output_path.exists()
skip_unit(skip_existing, file) == skip_existing /\ file.exists

\* the runner between two runs
IdleRunner ==
    [pc |-> "idle", skip_existing |-> TRUE, index |-> 1,
     processed |-> 0, skipped |-> 0, failed |-> 0, summary |-> GeminiBatchSummary]

NoSummaryFile == [exists |-> FALSE, summary |-> GeminiBatchSummary]

\* what a run has done so far, kept for the properties (no state of the program):
\* the units passed to the validator, the units whose request to the external
\* model failed, and the units that were skipped
NoAudit == [validated |-> {}, request_failed |-> {}, skipped |-> {}]

\* main up to the loop: the arguments, a fresh summary and the three counters
StartRun ==
    /\ runner.pc = "idle"
    /\ runs < MaxRuns
    /\ \E skip_existing \in BOOLEAN :
          runner' = [IdleRunner EXCEPT !.pc = "loop", !.skip_existing = skip_existing]
    /\ runs' = runs + 1
    /\ audit' = NoAudit
    /\ UNCHANGED <<output_dir, summary_file>>
    /\ UNCHANGED <<verifySpanVars, verifyDocVars, reportVars, batchVars, geminiVars, validateVars, runVerifierVars, dedupeVars, segmentVars, nerVars, peopleVars, simpleVars, baselineVars, phoneVars, httpVars, ruleBatchVars>>

\* one pass of the loop of main, for the input file at index
ProcessUnit ==
    /\ runner.pc = "loop"
    /\ runner.index <= MaxUnits
    /\ LET unit == runner.index
       IN  IF skip_unit(runner.skip_existing, output_dir[unit])
           THEN /\ runner' = [runner EXCEPT !.skipped = @ + 1, !.index = @ + 1]
                /\ audit' = [audit EXCEPT !.skipped = @ \cup {unit}]
                /\ UNCHANGED output_dir
           ELSE \E call \in UnitCalls :
                  LET out == process_file(call)
                      audited ==
                        [audit EXCEPT
                           !.validated =
                              IF call.mode = "unreadable" THEN @ ELSE @ \cup {unit},
                           !.request_failed =
                              IF call.mode = "request_failed" THEN @ \cup {unit} ELSE @]
                  IN  /\ audit' = audited
                      /\ IF out.outcome = "returned"
                         THEN /\ output_dir' =
                                    [output_dir EXCEPT
                                       ![unit] = ReportFile(StoredReport(out.report))]
                              /\ runner' =
                                    [runner EXCEPT
                                       !.summary =
                                          register_report(@, StoredReport(out.report)),
                                       !.processed = @ + 1,
                                       !.index = @ + 1]
                         ELSE /\ runner' = [runner EXCEPT !.failed = @ + 1,
                                                          !.index = @ + 1]
                              /\ UNCHANGED output_dir
    /\ UNCHANGED <<runs, summary_file>>
    /\ UNCHANGED <<verifySpanVars, verifyDocVars, reportVars, batchVars, geminiVars, validateVars, runVerifierVars, dedupeVars, segmentVars, nerVars, peopleVars, simpleVars, baselineVars, phoneVars, httpVars, ruleBatchVars>>

\* main after the loop: save_json(summary.model_dump(...), _batch_summary.json)
FinishRun ==
    /\ runner.pc = "loop"
    /\ runner.index > MaxUnits
    /\ summary_file' = [exists |-> TRUE, summary |-> runner.summary]
    /\ runner' = [runner EXCEPT !.pc = "idle"]
    /\ UNCHANGED <<output_dir, runs, audit>>
    /\ UNCHANGED <<verifySpanVars, verifyDocVars, reportVars, batchVars, geminiVars, validateVars, runVerifierVars, dedupeVars, segmentVars, nerVars, peopleVars, simpleVars, baselineVars, phoneVars, httpVars, ruleBatchVars>>

\* main with --summary-only
SummaryOnly ==
    /\ runner.pc = "idle"
    /\ runs < MaxRuns
    /\ summary_file' = [exists |-> TRUE, summary |-> build_batch_summary(output_dir)]
    /\ runs' = runs + 1
    /\ runner' = IdleRunner
    /\ audit' = NoAudit
    /\ UNCHANGED output_dir
    /\ UNCHANGED <<verifySpanVars, verifyDocVars, reportVars, batchVars, geminiVars, validateVars, runVerifierVars, dedupeVars, segmentVars, nerVars, peopleVars, simpleVars, baselineVars, phoneVars, httpVars, ruleBatchVars>>

\* view_gemini_report.apply_manual_status: a reviewer marks a stored report, or
\* takes the mark away, between two runs
MarkReport ==
    /\ runner.pc = "idle"
    /\ \E unit \in Units, status \in ManualStatus :
          /\ output_dir[unit].exists
          /\ output_dir[unit].report.manual_status # status
          /\ output_dir' = [output_dir EXCEPT ![unit].report.manual_status = status]
    /\ UNCHANGED <<summary_file, runner, runs, audit>>
    /\ UNCHANGED <<verifySpanVars, verifyDocVars, reportVars, batchVars, geminiVars, validateVars, runVerifierVars, dedupeVars, segmentVars, nerVars, peopleVars, simpleVars, baselineVars, phoneVars, httpVars, ruleBatchVars>>

IdleGeminiRunner ==
    /\ output_dir = [unit \in Units |-> NoFile]
    /\ summary_file = NoSummaryFile
    /\ runner = IdleRunner
    /\ runs = 0
    /\ audit = NoAudit

\* main after process_file returned a report: summary.register_report(report)
\* on the fresh summary of the run
RegisterValidated ==
    /\ outcome = "returned"
    /\ batch.total_files_processed = 0
    /\ batch' = register_report(batch, StoredReport(gemini_report))
    /\ last_report' = StoredReport(gemini_report)
    /\ UNCHANGED tally
    /\ UNCHANGED <<verifySpanVars, verifyDocVars, reportVars, geminiVars, runnerVars, validateVars, runVerifierVars, dedupeVars, segmentVars, nerVars, peopleVars, simpleVars, baselineVars, phoneVars, httpVars, ruleBatchVars>>

(***************************************************************************)
(* validate_span (src/extraction/spans.py)                                 *)
(*                                                                         *)
(* A span payload is a mapping whose fields are well typed: the text, the  *)
(* two offsets, an optional passage_id, an optional confidence (in         *)
(* hundredths) and whether it holds a key that SpanModel does not declare. *)
(***************************************************************************)
Absent == [present |-> FALSE, value |-> 0]
Present(v) == [present |-> TRUE, value |-> v]

\* confidences in hundredths: -0.01, 0.0, 0.5, 1.0 and 1.01
PayloadConfidences == {-1, 0, 50, 100, 101}

SpanPayloads ==
    [text : {<<>>, <<"a">>, <<" ">>},
     start : -1..MaxPayloadOffset,
     end : -1..MaxPayloadOffset,
     passage_id : {Absent} \cup {Present(v) : v \in -1..1},
     confidence : {Absent} \cup {Present(v) : v \in PayloadConfidences},
     extra : BOOLEAN]

\* the fields of SpanModel and the key that it does not declare
SpanFields == {"text", "start", "end", "passage_id", "confidence", "extra"}

\* whether the payload breaks the constraint of a field: min_length=1, ge=0,
\* ge=0.0 and le=1.0, extra="forbid"
Violates(p, f) ==
    CASE f = "text" -> Len(p.text) < 1
      [] f = "start" -> p.start < 0
      [] f = "end" -> p.end < 0
      [] f = "passage_id" -> p.passage_id.present /\ p.passage_id.value < 0
      [] f = "confidence" ->
            p.confidence.present /\ (p.confidence.value < 0 \/ p.confidence.value > 100)
      [] f = "extra" -> p.extra

FieldViolations(p) == {f \in SpanFields : Violates(p, f)}

\* the SpanModel of a payload, by the fields the verifier reads
ValidatedSpan(p) ==
    [text |-> p.text, start |-> p.start, end |-> p.end, verifier_pass |-> FALSE]

Accepted(s) == [ok |-> TRUE, span |-> s]
Rejected == [ok |-> FALSE, span |-> NoSpan]
NotValidated == [ok |-> FALSE, span |-> [NoSpan EXCEPT !.start = -1]]

\* validate_span with a schema that lets unknown keys and any passage_id pass
validate_span_offsets_only(p) ==
    IF FieldViolations(p) \ {"passage_id", "extra"} = {}
    THEN Accepted(ValidatedSpan(p)) ELSE Rejected

\* validate_span on a mapping: SpanModel.model_validate(payload)
validate_span(p) ==
    IF FieldViolations(p) = {} THEN Accepted(ValidatedSpan(p)) ELSE Rejected

\* one call validate_span(payload)
ValidateSpan ==
    /\ validation = NotValidated
    /\ validation' = validate_span(span_payload)
    /\ UNCHANGED span_payload
    /\ UNCHANGED <<verifySpanVars, verifyDocVars, reportVars, batchVars, geminiVars, runnerVars, runVerifierVars, dedupeVars, segmentVars, nerVars, peopleVars, simpleVars, baselineVars, phoneVars, httpVars, ruleBatchVars>>

PlainSpanPayload ==
    [text |-> <<"a">>, start |-> 0, end |-> 1,
     passage_id |-> Absent, confidence |-> Absent, extra |-> FALSE]

IdleValidateSpan ==
    /\ span_payload = PlainSpanPayload
    /\ validation = NotValidated

InputsValidateSpan ==
    /\ span_payload \in SpanPayloads
    /\ validation = NotValidated

(***************************************************************************)
(* validate_spans and the verifier run (src/extraction/run_verifier.py)    *)
(***************************************************************************)
\* validate_spans: the first payload that fails raises ValueError
validate_spans(payloads) ==
    IF \E i \in 1..Len(payloads) : ~validate_span(payloads[i]).ok
    THEN [ok |-> FALSE, spans |-> <<>>]
    ELSE [ok |-> TRUE,
          spans |-> [i \in 1..Len(payloads) |-> validate_span(payloads[i]).span]]

\* the article of every span file: one paragraph "a"
FileArticle == <<(<<"a">>)>>

\* the payloads of the span files: one that verifies, one that is valid and out
\* of bounds, one that is malformed (empty text)
FilePayloads ==
    {PlainSpanPayload,
     [PlainSpanPayload EXCEPT !.start = 1, !.end = 2],
     [PlainSpanPayload EXCEPT !.text = <<>>]}

SpanFiles == [1..MaxSpanFiles -> SeqsUpTo(FilePayloads, MaxFileSpans)]

\* an output file of the verifier run: the verified spans and the dropped ones
NoOutput == [written |-> FALSE, spans |-> <<>>, dropped |-> <<>>]

VerifierStart ==
    [pc |-> "loop", index |-> 1, outputs |-> [f \in 1..MaxSpanFiles |-> NoOutput]]

\* one pass of the loop of main: load_spans_from_path, verify_document, the output
\* file; an exception of load_spans_from_path is caught nowhere and ends main
VerifyNextFile ==
    /\ verifier_run.pc = "loop"
    /\ verifier_run.index <= MaxSpanFiles
    /\ LET f == verifier_run.index
           loaded == validate_spans(span_files[f])
           out == verify_document(FileArticle, loaded.spans)
       IN  IF ~loaded.ok
           THEN verifier_run' = [verifier_run EXCEPT !.pc = "ValueError"]
           ELSE verifier_run' =
                  [verifier_run EXCEPT
                     !.outputs[f] = [written |-> TRUE, spans |-> out.verified,
                                     dropped |-> out.failures],
                     !.index = @ + 1]
    /\ UNCHANGED span_files
    /\ UNCHANGED <<verifySpanVars, verifyDocVars, reportVars, batchVars, geminiVars, runnerVars, validateVars, dedupeVars, segmentVars, nerVars, peopleVars, simpleVars, baselineVars, phoneVars, httpVars, ruleBatchVars>>

\* main after the loop: return 0
FinishVerifier ==
    /\ verifier_run.pc = "loop"
    /\ verifier_run.index > MaxSpanFiles
    /\ verifier_run' = [verifier_run EXCEPT !.pc = "done"]
    /\ UNCHANGED span_files
    /\ UNCHANGED <<verifySpanVars, verifyDocVars, reportVars, batchVars, geminiVars, runnerVars, validateVars, dedupeVars, segmentVars, nerVars, peopleVars, simpleVars, baselineVars, phoneVars, httpVars, ruleBatchVars>>

IdleRunVerifier ==
    /\ span_files = [f \in 1..MaxSpanFiles |-> <<>>]
    /\ verifier_run = VerifierStart

InputsRunVerifier ==
    /\ span_files \in SpanFiles
    /\ verifier_run = VerifierStart

(***************************************************************************)
(* dedupe_spans (src/extraction/run_baseline.py)                           *)
(*                                                                         *)
(* A Span is given by the fields of its key, its confidence (in hundredths, *)
(* or absent) and its sentence_id, which tells spans of one key apart.     *)
(***************************************************************************)
DedupeSpans ==
    {s \in [span_type : {"person", "location"}, start : {0, 1}, end : {2},
            source : {"ner"}, text : {<<"a">>},
            confidence : {Absent, Present(0), Present(80)},
            sentence_id : {"0.0", "0.1"}] :
        s.span_type = "location" => s.start = 0}

\* key = (span.span_type, span.start, span.end, span.source, span.text)
SpanKey(s) == <<s.span_type, s.start, s.end, s.source, s.text>>

\* span.confidence or 0.0
ConfidenceOrZero(s) == IF s.confidence.present THEN s.confidence.value ELSE 0

\* the position of a key in the values of the OrderedDict, 0 if it is not there
KeyIndex(ordered, key) ==
    IF \E i \in 1..Len(ordered) : SpanKey(ordered[i]) = key
    THEN CHOOSE i \in 1..Len(ordered) : SpanKey(ordered[i]) = key
    ELSE 0

\* the test of dedupe_spans letting a span of equal confidence replace the one kept
replaces_on_tie(s, ordered, at) ==
    at = 0 \/ ConfidenceOrZero(s) >= ConfidenceOrZero(ordered[at])

\* existing is None or (span.confidence or 0.0) > (existing.confidence or 0.0)
Replaces(s, ordered, at) ==
    at = 0 \/ ConfidenceOrZero(s) > ConfidenceOrZero(ordered[at])

\* the loop of dedupe_spans: the values of the OrderedDict, in the order in which
\* the keys were first set
RECURSIVE DedupeLoop(_, _)
DedupeLoop(rest, ordered) ==
    IF rest = <<>> THEN ordered
    ELSE LET s == Head(rest)
             at == KeyIndex(ordered, SpanKey(s))
         IN  IF ~Replaces(s, ordered, at) THEN DedupeLoop(Tail(rest), ordered)
             ELSE IF at = 0 THEN DedupeLoop(Tail(rest), Append(ordered, s))
             ELSE DedupeLoop(Tail(rest), [ordered EXCEPT ![at] = s])

\* "location" < "person" < "phone_number": the order of the values of the types
TypeBefore(a, b) ==
    \/ a = "location" /\ b \in {"person", "phone_number"}
    \/ a = "person" /\ b = "phone_number"

\* (a.start, a.end, a.span_type.value) < (b.start, b.end, b.span_type.value)
SortKeyBefore(a, b) ==
    \/ a.start < b.start
    \/ a.start = b.start /\ a.end < b.end
    \/ a.start = b.start /\ a.end = b.end /\ TypeBefore(a.span_type, b.span_type)

\* sorted(): a stable sort, here by insertion
RECURSIVE InsertSorted(_, _)
InsertSorted(sorted, s) ==
    IF sorted = <<>> THEN <<s>>
    ELSE IF SortKeyBefore(s, Head(sorted)) THEN <<s>> \o sorted
    ELSE <<Head(sorted)>> \o InsertSorted(Tail(sorted), s)

RECURSIVE SortSpans(_)
SortSpans(seq) ==
    IF seq = <<>> THEN <<>>
    ELSE InsertSorted(SortSpans(SubSeq(seq, 1, Len(seq) - 1)), seq[Len(seq)])

\* dedupe_spans
dedupe_spans(input) == SortSpans(DedupeLoop(input, <<>>))

NotDeduped == [called |-> FALSE, spans |-> <<>>]

\* one call dedupe_spans(spans)
DedupeSpansCall ==
    /\ ~dedupe_result.called
    /\ dedupe_result' = [called |-> TRUE, spans |-> dedupe_spans(dedupe_input)]
    /\ UNCHANGED dedupe_input
    /\ UNCHANGED <<verifySpanVars, verifyDocVars, reportVars, batchVars, geminiVars, runnerVars, validateVars, runVerifierVars, segmentVars, nerVars, peopleVars, simpleVars, baselineVars, phoneVars, httpVars, ruleBatchVars>>

IdleDedupe ==
    /\ dedupe_input = <<>>
    /\ dedupe_result = NotDeduped

InputsDedupe ==
    /\ dedupe_input \in SeqsUpTo(DedupeSpans, MaxDedupeSpans)
    /\ dedupe_result = NotDeduped

(***************************************************************************)
(* segment_sentences (src/extraction/run_baseline.py)                      *)
(*                                                                         *)
(* SENTENCE_PATTERN is [^.!?\n]+ followed by a run of closing characters.  *)
(* The characters of the model: a letter, a blank, a full stop (for . ! ?),*)
(* a line break, and "e" for a closing character that is none of . ! ? and *)
(* therefore also matches the first part of the pattern.                   *)
(***************************************************************************)
SegmentAlphabet == {"a", " ", ".", "\n", "e"}

\* a character that [^.!?\n] does not match
IsStop(c) == c \in {".", "\n"}

\* a character of the closing class of SENTENCE_PATTERN
IsClosing(c) == c \in {".", "e"}

\* [^.!?\n]+ from position first on: the last position of the longest run of
\* characters that are no stops
BodyEnd(text, first) ==
    CHOOSE last \in first..Len(text) :
        /\ \A k \in first..last : ~IsStop(text[k])
        /\ last = Len(text) \/ IsStop(text[last + 1])

\* the closing class, zero or more times, from position first on: the last
\* position of the longest run of closing characters (first - 1 if it is empty)
ClosingEnd(text, first) ==
    CHOOSE last \in (first - 1)..Len(text) :
        /\ \A k \in first..last : IsClosing(text[k])
        /\ last = Len(text) \/ ~IsClosing(text[last + 1])

\* the matches of SENTENCE_PATTERN.finditer(text) from position from on, each by
\* match.start() and match.group(0); both parts of the pattern are greedy
RECURSIVE FindMatches(_, _)
FindMatches(text, from) ==
    IF \A p \in from..Len(text) : IsStop(text[p]) THEN <<>>
    ELSE LET first == CHOOSE p \in from..Len(text) :
                         /\ ~IsStop(text[p])
                         /\ \A q \in from..(p - 1) : IsStop(text[q])
             body == BodyEnd(text, first)
             last == ClosingEnd(text, body + 1)
         IN  <<[start |-> first - 1, raw |-> SubSeq(text, first, last)]>>
             \o FindMatches(text, last + 1)

\* len(raw) - len(raw.lstrip())
LeadingWhitespace(raw) == Len(raw) - Len(LStrip(raw))

\* the loop of segment_sentences over the matches
RECURSIVE SentencesOf(_)
SentencesOf(matches) ==
    IF matches = <<>> THEN <<>>
    ELSE LET raw == Head(matches).raw
             sentence == Strip(raw)
         IN  IF sentence = <<>> THEN SentencesOf(Tail(matches))
             ELSE <<[sentence |-> sentence,
                     offset |-> Head(matches).start + LeadingWhitespace(raw)]>>
                  \o SentencesOf(Tail(matches))

\* segment_sentences measuring the offset of a sentence from the start of its match
segment_sentences_match_start(text) ==
    LET matches == FindMatches(text, 1)
    IN  [i \in 1..Len(matches) |->
            [sentence |-> Strip(matches[i].raw), offset |-> matches[i].start]]

\* segment_sentences
segment_sentences(text) ==
    LET sentences == SentencesOf(FindMatches(text, 1))
        stripped == Strip(text)
    IN  IF sentences # <<>> THEN sentences
        ELSE IF stripped # <<>>
             THEN <<[sentence |-> stripped, offset |-> LeadingWhitespace(text)]>>
        ELSE <<>>

NotSegmented == [called |-> FALSE, sentences |-> <<>>]

\* one call segment_sentences(text)
SegmentSentences ==
    /\ ~segments.called
    /\ segments' = [called |-> TRUE, sentences |-> segment_sentences(segment_text)]
    /\ UNCHANGED segment_text
    /\ UNCHANGED <<verifySpanVars, verifyDocVars, reportVars, batchVars, geminiVars, runnerVars, validateVars, runVerifierVars, dedupeVars, nerVars, peopleVars, simpleVars, baselineVars, phoneVars, httpVars, ruleBatchVars>>

IdleSegment ==
    /\ segment_text = <<>>
    /\ segments = NotSegmented

InputsSegment ==
    /\ segment_text \in SeqsUpTo(SegmentAlphabet, MaxSegmentLen)
    /\ segments = NotSegmented

(***************************************************************************)
(* create_backend and NerPipeline (src/extraction/ner.py)                  *)
(***************************************************************************)
NERBackend == {"auto", "vncorenlp", "phobert", "simple", "none"}

\* what create_backend yields: the backends whose initialization was tried, in
\* order, whether an exception left it, and the name of the backend returned
\* ("none" for None and when it raised)
BackendReturned(name, tried) == [raised |-> FALSE, backend |-> name, tried |-> tried]
BackendRaised(tried) == [raised |-> TRUE, backend |-> "none", tried |-> tried]
NotCreated == [raised |-> FALSE, backend |-> "not_called", tried |-> <<>>]

\* create_backend falling back to the next backend whatever was asked for
create_backend_always_falls_back(backend, available) ==
    IF backend = "none" THEN BackendReturned("none", <<>>)
    ELSE LET tried1 == IF backend \in {"auto", "vncorenlp"} THEN <<"vncorenlp">> ELSE <<>>
         IN  IF tried1 # <<>> /\ available.vncorenlp
             THEN BackendReturned("vncorenlp", tried1)
             ELSE LET tried2 == IF backend \in {"auto", "phobert"}
                                THEN Append(tried1, "phobert") ELSE tried1
                  IN  IF backend \in {"auto", "phobert"} /\ available.phobert
                      THEN BackendReturned("phobert", tried2)
                      ELSE BackendReturned("simple", Append(tried2, "simple"))

\* create_backend: a constructor that fails raises; the exception is passed on
\* only when that backend was asked for by name
create_backend(backend, available) ==
    IF backend = "none" THEN BackendReturned("none", <<>>)
    ELSE LET tried1 == IF backend \in {"auto", "vncorenlp"} THEN <<"vncorenlp">> ELSE <<>>
         IN  IF tried1 # <<>> /\ available.vncorenlp
             THEN BackendReturned("vncorenlp", tried1)
             ELSE IF tried1 # <<>> /\ backend = "vncorenlp"
             THEN BackendRaised(tried1)
             ELSE LET tried2 == IF backend \in {"auto", "phobert"}
                                THEN Append(tried1, "phobert") ELSE tried1
                  IN  IF backend \in {"auto", "phobert"} /\ available.phobert
                      THEN BackendReturned("phobert", tried2)
                      ELSE IF backend = "phobert"
                      THEN BackendRaised(tried2)
                      ELSE BackendReturned("simple", Append(tried2, "simple"))

\* NerPipeline.extract: one span per entity of the backend, by the name of the
\* backend; nothing for an empty sentence or without a backend
extract(backend, sentence, found) ==
    IF sentence = <<>> \/ backend = "none" THEN <<>>
    ELSE [i \in 1..found |-> [source |-> "ner", backend |-> backend]]

NotExtracted == [called |-> FALSE, spans |-> <<>>]

\* NerPipeline(backend): self._backend = create_backend(backend)
CreatePipeline ==
    /\ ner_created = NotCreated
    /\ ner_created' = create_backend(ner_request, ner_available)
    /\ UNCHANGED <<ner_request, ner_available, ner_sentence, ner_found, ner_extracted>>
    /\ UNCHANGED <<verifySpanVars, verifyDocVars, reportVars, batchVars, geminiVars, runnerVars, validateVars, runVerifierVars, dedupeVars, segmentVars, peopleVars, simpleVars, baselineVars, phoneVars, httpVars, ruleBatchVars>>

\* pipeline.extract(sentence, ...) on a pipeline that was constructed
Extract ==
    /\ ner_created # NotCreated
    /\ ~ner_created.raised
    /\ ~ner_extracted.called
    /\ ner_extracted' =
          [called |-> TRUE,
           spans |-> extract(ner_created.backend, ner_sentence, ner_found)]
    /\ UNCHANGED <<ner_request, ner_available, ner_sentence, ner_found, ner_created>>
    /\ UNCHANGED <<verifySpanVars, verifyDocVars, reportVars, batchVars, geminiVars, runnerVars, validateVars, runVerifierVars, dedupeVars, segmentVars, peopleVars, simpleVars, baselineVars, phoneVars, httpVars, ruleBatchVars>>

IdleNer ==
    /\ ner_request = "none"
    /\ ner_available = [vncorenlp |-> FALSE, phobert |-> FALSE]
    /\ ner_sentence = <<>>
    /\ ner_found = 0
    /\ ner_created = NotCreated
    /\ ner_extracted = NotExtracted

InputsNer ==
    /\ ner_request \in NERBackend
    /\ ner_available \in [vncorenlp : BOOLEAN, phobert : BOOLEAN]
    /\ ner_sentence \in SeqsUpTo(Alphabet, MaxNerSentenceLen)
    /\ ner_found \in 0..MaxEntities
    /\ ner_created = NotCreated
    /\ ner_extracted = NotExtracted

(***************************************************************************)
(* PeopleValidator (src/validation/llm_validator.py)                       *)
(*                                                                         *)
(* A field claim is the dict of a text-bearing field: its text and its     *)
(* offsets, an offset the dict does not hold reading as -1.  A field the   *)
(* person does not hold has the empty text.                                *)
(***************************************************************************)
PeopleAlphabet == {"a", "b", " "}

FieldClaim(text, start, end) == [text |-> text, start |-> start, end |-> end]
NoClaim == FieldClaim(<<>>, -1, -1)

\* the age dict: whether it has a value, and its offsets
AgeClaim(has_value, start, end) == [has_value |-> has_value, start |-> start, end |-> end]
NoAge == AgeClaim(FALSE, -1, -1)

\* an entry of the actions list; amount_vnd in units of 10^9 VND
ActionClaim(predicate, law_article, amount_vnd) ==
    [predicate |-> predicate, law_article |-> law_article, amount_vnd |-> amount_vnd]

\* a person dict without any key
NoPerson ==
    [name |-> NoClaim, age |-> NoAge, birth_place |-> NoClaim, phones |-> <<>>,
     national_id |-> NoClaim, aliases |-> <<>>, roles |-> <<>>, actions |-> <<>>]

ALLOWED_ROLES == {"suspect", "victim", "official", "witness", "lawyer", "judge", "other"}
ALLOWED_PREDICATES ==
    {"arrested", "charged", "sentenced", "confessed", "searched", "seized", "other"}

\* 1_000_000_000_000 VND, in units of 10^9 VND
AmountCeiling == 1000

\* an issue of the rule-based validator (the fields the properties read)
PeopleIssue(type, severity, field) == [type |-> type, severity |-> severity, field |-> field]

\* whether text occurs in passage at the 0-based position at
OccursAt(passage, text, at) ==
    /\ at + Len(text) <= Len(passage)
    /\ \A i \in 1..Len(text) : passage[at + i] = text[i]

\* passage.find(text)
Find(passage, text) ==
    LET hits == {at \in 0..Len(passage) : OccursAt(passage, text, at)}
    IN  IF hits = {} THEN -1 ELSE CHOOSE at \in hits : \A other \in hits : at <= other

\* the field name of a bounds issue: f"{field}.start/end"
StartEndField(field) ==
    CASE field = "name" -> "name.start/end"
      [] field = "birth_place" -> "birth_place.start/end"
      [] field = "national_id" -> "national_id.start/end"
      [] field = "phones[0]" -> "phones[0].start/end"
      [] field = "aliases[0]" -> "aliases[0].start/end"

\* PeopleValidator._check_span_position
check_span_position(rep, field, claim, passage) ==
    IF claim.start = -1 \/ claim.end = -1 THEN rep
    ELSE IF claim.start < 0 \/ claim.end > Len(passage) \/ claim.start >= claim.end
    THEN add_issue(rep, PeopleIssue("wrong_position", "error", StartEndField(field)))
    ELSE IF Slice(passage, claim.start, claim.end) # claim.text
    THEN IF Find(passage, claim.text) # -1
         THEN add_issue(rep, PeopleIssue("wrong_position", "error", field))
         ELSE add_issue(rep, PeopleIssue("hallucination", "critical", field))
    ELSE rep

\* the check of one text-bearing field: skipped when the text is empty
CheckField(rep, field, claim, passage) ==
    IF claim.text # <<>> THEN check_span_position(rep, field, claim, passage) ELSE rep

\* the check of the first entry of the phones or aliases list
CheckFirst(rep, field, claims, passage) ==
    IF claims # <<>> THEN CheckField(rep, field, claims[1], passage) ELSE rep

\* the age branch of _validate_character_positions
CheckAge(rep, age, passage) ==
    IF /\ age.has_value
       /\ age.start # -1 /\ age.end # -1 /\ age.start # age.end
       /\ (age.start < 0 \/ age.end > Len(passage) \/ age.start >= age.end)
    THEN add_issue(rep, PeopleIssue("wrong_position", "error", "age.start/end"))
    ELSE rep

\* PeopleValidator._validate_character_positions
validate_character_positions(rep, p, passage) ==
    LET named == CheckField(rep, "name", p.name, passage)
        aged == CheckAge(named, p.age, passage)
        born == CheckField(aged, "birth_place", p.birth_place, passage)
        phoned == CheckFirst(born, "phones[0]", p.phones, passage)
        identified == CheckField(phoned, "national_id", p.national_id, passage)
    IN  CheckFirst(identified, "aliases[0]", p.aliases, passage)

\* PeopleValidator._validate_schema_compliance (lists of at most one entry)
validate_schema_compliance(rep, p) ==
    LET roled ==
            IF p.roles # <<>> /\ p.roles[1] # "" /\ p.roles[1] \notin ALLOWED_ROLES
            THEN add_issue(rep, PeopleIssue("schema_violation", "warning", "roles[0].label"))
            ELSE rep
    IN  IF /\ p.actions # <<>>
           /\ p.actions[1].predicate # ""
           /\ p.actions[1].predicate \notin ALLOWED_PREDICATES
        THEN add_issue(roled,
                 PeopleIssue("schema_violation", "warning", "actions[0].predicate"))
        ELSE roled

\* needle in haystack
Contains(haystack, needle) == Find(haystack, needle) # -1

\* PeopleValidator._validate_factual_accuracy (lists of at most one entry)
validate_factual_accuracy(rep, p, passage) ==
    IF p.actions = <<>> THEN rep
    ELSE
        LET act == p.actions[1]
            lawed ==
                IF /\ act.law_article # <<>>
                   /\ ~Contains(CleanText(passage), CleanText(act.law_article))
                THEN add_issue(rep,
                         PeopleIssue("wrong_law_article", "critical",
                                     "actions[0].law_article"))
                ELSE rep
        IN  IF act.amount_vnd.present /\ act.amount_vnd.value > AmountCeiling
            THEN add_issue(lawed,
                     PeopleIssue("hallucination", "warning", "actions[0].amount_vnd"))
            ELSE lawed

\* how client.generate ends: the server answers 200 with a content, answers with
\* an error status, answers 200 with a body that is no JSON, or requests.post
\* raises (ConnectionError, Timeout)
CallReturned(kind, names) == [ends |-> "returned", content |-> kind, names |-> names]
CallFailed(how) == [ends |-> how, content |-> "none", names |-> <<>>]

\* OllamaClient._post: the error that leaves it, "none" when it returns
post(call) ==
    CASE call.ends = "transport_error" -> "ConnectionError"
      [] call.ends = "error_status" -> "OllamaError"
      [] call.ends = "invalid_body" -> "OllamaError"
      [] OTHER -> "none"

\* the loop over missing_people of _check_completeness
RECURSIVE MissingEntities(_, _, _)
MissingEntities(rep, names, passage) ==
    IF names = <<>> THEN rep
    ELSE MissingEntities(
             IF Strip(Head(names)) # <<>> /\ Contains(passage, Head(names))
             THEN add_issue(rep, PeopleIssue("missing_entity", "warning", "people"))
             ELSE rep,
             Tail(names), passage)

PeopleReturned(rep) == [ends |-> "returned", report |-> rep]
PeopleRaised(error, rep) == [ends |-> error, report |-> rep]
PeopleNotCalled == [ends |-> "not_called", report |-> ValidationReport]

\* PeopleValidator._check_completeness: only OllamaError is caught; a content
\* that is valid JSON but no object has no get
check_completeness(rep, passage, call) ==
    IF post(call) = "OllamaError"
    THEN PeopleReturned(
             add_issue(rep,
                 PeopleIssue("incomplete_extraction", "info", "completeness_check")))
    ELSE IF post(call) # "none" THEN PeopleRaised(post(call), rep)
    ELSE IF call.content = "not_json" THEN PeopleReturned(rep)
    ELSE IF call.content = "list" THEN PeopleRaised("AttributeError", rep)
    ELSE PeopleReturned(MissingEntities(rep, call.names, passage))

\* the three rule checks of one person
RECURSIVE CheckPeople(_, _, _)
CheckPeople(rep, people, passage) ==
    IF people = <<>> THEN rep
    ELSE
        LET p == Head(people)
            positioned == validate_character_positions(rep, p, passage)
            schemed == validate_schema_compliance(positioned, p)
        IN  CheckPeople(validate_factual_accuracy(schemed, p, passage),
                        Tail(people), passage)

\* the issues recorded before the completeness call
RuleIssues(people, passage) == CheckPeople(ValidationReport, people, passage)

\* PeopleValidator.validate_extraction
people_validate_extraction(passage, people, call) ==
    check_completeness(RuleIssues(people, passage), passage, call)

\* one call validator.validate_extraction(...)
ValidatePeople ==
    /\ people_result = PeopleNotCalled
    /\ people_result' =
          people_validate_extraction(people_passage, people_extracted, people_call)
    /\ UNCHANGED <<people_passage, people_extracted, people_call>>
    /\ UNCHANGED <<verifySpanVars, verifyDocVars, reportVars, batchVars, geminiVars, runnerVars, validateVars, runVerifierVars, dedupeVars, segmentVars, nerVars, simpleVars, baselineVars, phoneVars, httpVars, ruleBatchVars>>

TextFields == {"name", "birth_place", "national_id", "phones[0]", "aliases[0]"}

\* the claim of a text-bearing field of a person
ClaimOf(p, field) ==
    CASE field = "name" -> p.name
      [] field = "birth_place" -> p.birth_place
      [] field = "national_id" -> p.national_id
      [] field = "phones[0]" -> IF p.phones = <<>> THEN NoClaim ELSE p.phones[1]
      [] field = "aliases[0]" -> IF p.aliases = <<>> THEN NoClaim ELSE p.aliases[1]

\* a person holding one text-bearing field
WithField(field, claim) ==
    CASE field = "name" -> [NoPerson EXCEPT !.name = claim]
      [] field = "birth_place" -> [NoPerson EXCEPT !.birth_place = claim]
      [] field = "national_id" -> [NoPerson EXCEPT !.national_id = claim]
      [] field = "phones[0]" -> [NoPerson EXCEPT !.phones = <<claim>>]
      [] field = "aliases[0]" -> [NoPerson EXCEPT !.aliases = <<claim>>]

ClaimOffsets == (-2)..MaxClaimOffset
ClaimTexts == SeqsUpTo({"a", "b"}, MaxClaimLen) \ {<<>>}

\* people with one text-bearing field
FieldPeople ==
    {WithField(field, FieldClaim(text, start, end)) :
        field \in TextFields, text \in ClaimTexts,
        start \in ClaimOffsets, end \in ClaimOffsets}

\* people with a name and an age
AgePeople ==
    {[NoPerson EXCEPT !.name = FieldClaim(<<"a">>, 0, 1),
                      !.age = AgeClaim(has_value, start, end)] :
        has_value \in BOOLEAN, start \in ClaimOffsets, end \in ClaimOffsets}

\* people with one role and one action
ActionPeople ==
    {[NoPerson EXCEPT !.name = name, !.roles = <<role>>,
                      !.actions = <<ActionClaim(predicate, law, amount)>>] :
        name \in {FieldClaim(<<"a">>, 0, 1), FieldClaim(<<"b">>, 0, 1)},
        role \in {"suspect", "boss"},
        predicate \in {"", "arrested", "kidnapped"},
        law \in {<<>>, <<"a", " ", "b">>},
        amount \in {Absent, Present(AmountCeiling), Present(AmountCeiling + 1)}}

CompletenessCalls ==
    {CallFailed("error_status"), CallFailed("invalid_body"),
     CallFailed("transport_error"),
     CallReturned("not_json", <<>>), CallReturned("list", <<>>)}
    \cup {CallReturned("object", names) :
            names \in SeqsUpTo({<<"a">>, <<"b">>, <<" ">>, <<>>}, MaxMissingNames)}

IdlePeople ==
    /\ people_passage = <<>>
    /\ people_extracted = <<>>
    /\ people_call = CallReturned("object", <<>>)
    /\ people_result = PeopleNotCalled

\* the position checks are drawn with a completeness call that finds nothing
\* missing, the completeness calls with the people that have a role and an action
InputsPeople ==
    /\ people_passage \in SeqsUpTo(PeopleAlphabet, MaxPassageLen)
    /\ \/ /\ people_extracted \in SeqsUpTo(FieldPeople \cup AgePeople, MaxPeople)
          /\ people_call = CallReturned("object", <<>>)
       \/ /\ people_extracted \in SeqsUpTo(ActionPeople, MaxPeople)
          /\ people_call \in CompletenessCalls
    /\ people_result = PeopleNotCalled

(***************************************************************************)
(* SimpleRegexBackend (src/extraction/ner.py)                              *)
(*                                                                         *)
(* The letters of the model are o and t with their capitals O and T; "."   *)
(* stands for the punctuation that Token.cleaned strips and "0" for a      *)
(* digit.  HONORIFICS holds single-word entries (such as the word for Mr)  *)
(* and two-word entries (such as the rank of major): the model keeps one   *)
(* of each, the word oo and the two words t t.  Scores are in hundredths.  *)
(***************************************************************************)
NerAlphabet == {"o", "O", "t", "T", "0", ".", " "}

HONORIFICS == {<<"o", "o">>, <<"t", " ", "t">>}

IsUpperChar(c) == c \in {"O", "T"}
IsLowerChar(c) == c \in {"o", "t"}
IsDigit(c) == c = "0"
IsPunctuation(c) == c = "."

\* str.casefold, on the letters of the model
CasefoldChar(c) == IF c = "O" THEN "o" ELSE IF c = "T" THEN "t" ELSE c
Casefold(s) == [i \in 1..Len(s) |-> CasefoldChar(s[i])]

\* the end (exclusive, 0-based) of the run of non-whitespace starting at from
RECURSIVE TokenEnd(_, _)
TokenEnd(sentence, from) ==
    IF from >= Len(sentence) \/ IsSpace(sentence[from + 1]) THEN from
    ELSE TokenEnd(sentence, from + 1)

\* re.finditer(r"\S+", sentence): the tokens from the 0-based position from on
RECURSIVE Tokenize(_, _)
Tokenize(sentence, from) ==
    IF from >= Len(sentence) THEN <<>>
    ELSE IF IsSpace(sentence[from + 1]) THEN Tokenize(sentence, from + 1)
    ELSE LET end == TokenEnd(sentence, from)
         IN  <<[text |-> Slice(sentence, from, end), start |-> from, end |-> end]>>
             \o Tokenize(sentence, end)

\* str.strip(chars) for the punctuation of Token.cleaned
RECURSIVE StripPunctuation(_)
StripPunctuation(s) ==
    IF s = <<>> THEN <<>>
    ELSE IF IsPunctuation(Head(s)) THEN StripPunctuation(Tail(s))
    ELSE IF IsPunctuation(s[Len(s)]) THEN StripPunctuation(SubSeq(s, 1, Len(s) - 1))
    ELSE s

\* Token.cleaned
Cleaned(token) == StripPunctuation(token.text)

\* str.isupper: at least one cased character and no lowercase one
IsUpperStr(s) ==
    /\ \E i \in 1..Len(s) : IsUpperChar(s[i])
    /\ \A i \in 1..Len(s) : ~IsLowerChar(s[i])

\* _is_name_token
is_name_token(token) ==
    LET cleaned == Cleaned(token)
    IN  /\ cleaned # <<>>
        /\ \A i \in 1..Len(cleaned) : ~IsDigit(cleaned[i])
        /\ ~IsUpperStr(cleaned)
        /\ IsUpperChar(cleaned[1])

\* NerEntity (label is always PERSON)
NerEntity(text, start, end, score) ==
    [text |-> text, start |-> start, end |-> end, score |-> score]

\* min(0.55 + honorific_bonus + 0.02 * (len(indices) - 2), 0.85), in hundredths
SpanScore(bonus, count) == Min(55 + bonus + 2 * (count - 2), 85)

\* SimpleRegexBackend._flush_span for the run of the tokens first..last (no run
\* when first > last)
flush_span(sentence, tokens, first, last) ==
    IF first > last THEN <<>>
    ELSE IF first = last /\ Len(Cleaned(tokens[first])) <= 2 THEN <<>>
    ELSE LET absorbed ==
                 /\ first - 1 >= 1
                 /\ Casefold(Cleaned(tokens[first - 1])) \in HONORIFICS
             head == IF absorbed THEN first - 1 ELSE first
             bonus == IF absorbed THEN 10 ELSE 0
         IN  <<NerEntity(Slice(sentence, tokens[head].start, tokens[last].end),
                         tokens[head].start, tokens[last].end,
                         SpanScore(bonus, last - head + 1))>>

\* the loop of entities: idx is the next token, first the first token of the
\* current run (idx when the run is empty)
RECURSIVE EntitiesLoop(_, _, _, _)
EntitiesLoop(sentence, tokens, idx, first) ==
    IF idx > Len(tokens) THEN flush_span(sentence, tokens, first, idx - 1)
    ELSE IF is_name_token(tokens[idx])
    THEN EntitiesLoop(sentence, tokens, idx + 1, first)
    ELSE flush_span(sentence, tokens, first, idx - 1)
         \o EntitiesLoop(sentence, tokens, idx + 1, idx + 1)

\* SimpleRegexBackend.entities
entities(sentence) == EntitiesLoop(sentence, Tokenize(sentence, 0), 1, 1)

NoEntities == [called |-> FALSE, found |-> <<>>]

\* one call backend.entities(sentence)
Entities ==
    /\ ~simple_entities.called
    /\ simple_entities' = [called |-> TRUE, found |-> entities(simple_sentence)]
    /\ UNCHANGED simple_sentence
    /\ UNCHANGED <<verifySpanVars, verifyDocVars, reportVars, batchVars, geminiVars, runnerVars, validateVars, runVerifierVars, dedupeVars, segmentVars, nerVars, peopleVars, baselineVars, phoneVars, httpVars, ruleBatchVars>>

\* the words of the sentences: the honorific words in lower, title and upper
\* case, and name tokens of two and of three characters, with punctuation and
\* with a digit
Words ==
    {<<"o", "o">>, <<"O", "o">>, <<"O", "O">>, <<"o", "o", ".">>, <<"t">>, <<"T">>,
     <<"O", "t">>, <<"O", "t", "t">>, <<"O", "t", ".">>, <<"O", "0", "t">>}

\* " ".join(words)
RECURSIVE JoinWords(_)
JoinWords(words) ==
    IF words = <<>> THEN <<>>
    ELSE IF Len(words) = 1 THEN Head(words)
    ELSE Head(words) \o <<" ">> \o JoinWords(Tail(words))

IdleSimpleNer ==
    /\ simple_sentence = <<>>
    /\ simple_entities = NoEntities

InputsSimpleNer ==
    /\ simple_sentence \in {JoinWords(words) : words \in SeqsUpTo(Words, MaxWords)}
    /\ simple_entities = NoEntities

(***************************************************************************)
(* passage_records and process_article (src/extraction/passages.py,        *)
(* src/extraction/run_baseline.py, src/extraction/regex_detectors.py)      *)
(*                                                                         *)
(* An article is its list of paragraphs and its list of stored passages.   *)
(* The regular expression of a detector is given by what finditer yields:  *)
(* a set of non-overlapping matches, each by its start and end in the      *)
(* sentence and by whether the normalizer accepts it.  Every pattern of    *)
(* DETECTORS starts with a character that is no whitespace, so a match     *)
(* never starts on whitespace.                                             *)
(***************************************************************************)
Passage(passage_id, text, start, end) ==
    [passage_id |-> passage_id, text |-> text, start |-> start, end |-> end]

\* the loop of passage_records over the paragraphs, idx counting from 0
RECURSIVE FallbackPassages(_, _, _)
FallbackPassages(paragraphs, idx, cursor) ==
    IF idx >= Len(paragraphs) THEN <<>>
    ELSE LET paragraph == Strip(paragraphs[idx + 1])
         IN  IF paragraph = <<>> THEN FallbackPassages(paragraphs, idx + 1, cursor)
             ELSE <<Passage(idx, paragraph, cursor, cursor + Len(paragraph))>>
                  \o FallbackPassages(paragraphs, idx + 1, cursor + Len(paragraph) + 2)

\* passage_records
passage_records(art) ==
    IF art.passages # <<>> THEN art.passages
    ELSE FallbackPassages(art.paragraphs, 0, 0)

\* a Span, by the fields that dedupe_spans, validate_spans and verify_span read
BaselineSpan(span_type, text, start, end, sentence_id, source, passage_id, confidence) ==
    [span_type |-> span_type, text |-> text, start |-> start, end |-> end,
     sentence_id |-> sentence_id, source |-> source, passage_id |-> passage_id,
     confidence |-> Present(confidence)]

\* pattern.finditer(text): the matches of the pattern that lie in the text, in
\* the order of their starts
RECURSIVE OrderMatches(_)
OrderMatches(matches) ==
    IF matches = {} THEN <<>>
    ELSE LET first == CHOOSE m \in matches : \A other \in matches : m.start <= other.start
         IN  <<first>> \o OrderMatches(matches \ {first})

finditer(pattern, text) ==
    OrderMatches({m \in pattern : m.end <= Len(text) /\ ~IsSpace(text[m.start + 1])})

\* RegexDetector.detect adding the base offset to the start only
detect_end_not_rebased(pattern, text, sentence_id, passage_id, base_offset) ==
    LET matches == SelectSeq(finditer(pattern, text), LAMBDA m : m.normalizes)
    IN  [i \in 1..Len(matches) |->
            BaselineSpan("phone_number", Strip(Slice(text, matches[i].start, matches[i].end)),
                         base_offset + matches[i].start, matches[i].end,
                         sentence_id, "regex", passage_id, 95)]

\* RegexDetector.detect, for the detector named phone
detect(pattern, text, sentence_id, passage_id, base_offset) ==
    LET matches == SelectSeq(finditer(pattern, text), LAMBDA m : m.normalizes)
    IN  [i \in 1..Len(matches) |->
            BaselineSpan("phone_number", Strip(Slice(text, matches[i].start, matches[i].end)),
                         base_offset + matches[i].start, base_offset + matches[i].end,
                         sentence_id, "regex", passage_id, 95)]

\* NerPipeline.extract with the simple backend; no pipeline is given when
\* has_pipeline is false
pipeline_extract(has_pipeline, sentence, sentence_id, passage_id, base_offset) ==
    IF ~has_pipeline \/ sentence = <<>> THEN <<>>
    ELSE LET found == entities(sentence)
         IN  [i \in 1..Len(found) |->
                 BaselineSpan("person", found[i].text,
                              base_offset + found[i].start, base_offset + found[i].end,
                              sentence_id, "ner", passage_id,
                              Min(IF found[i].score < 0 THEN 0 ELSE found[i].score, 100))]

\* the inner loop of process_article: the spans of the sentences from idx on
RECURSIVE SentenceSpans(_, _, _, _, _)
SentenceSpans(sentences, idx, passage, pattern, has_pipeline) ==
    IF idx > Len(sentences) THEN <<>>
    ELSE LET sentence_id == <<passage.passage_id, idx - 1>>
             base_offset == passage.start + sentences[idx].offset
         IN  detect(pattern, sentences[idx].sentence, sentence_id,
                    passage.passage_id, base_offset)
             \o pipeline_extract(has_pipeline, sentences[idx].sentence, sentence_id,
                                 passage.passage_id, base_offset)
             \o SentenceSpans(sentences, idx + 1, passage, pattern, has_pipeline)

\* the outer loop of process_article: the spans and the number of sentences of
\* the passages that are not blank
RECURSIVE PassageSpans(_, _, _)
PassageSpans(passages, pattern, has_pipeline) ==
    IF passages = <<>> THEN [spans |-> <<>>, sentences |-> 0, passages |-> 0]
    ELSE LET rest == PassageSpans(Tail(passages), pattern, has_pipeline)
             text == Head(passages).text
             sentences == segment_sentences(text)
         IN  IF Strip(text) = <<>> THEN rest
             ELSE [spans |->
                      SentenceSpans(sentences, 1, Head(passages), pattern, has_pipeline)
                      \o rest.spans,
                   sentences |-> Len(sentences) + rest.sentences,
                   passages |-> 1 + rest.passages]

\* Span.to_dict: the payload that validate_span validates
to_dict(s) ==
    [text |-> s.text, start |-> s.start, end |-> s.end,
     passage_id |-> Present(s.passage_id), confidence |-> s.confidence,
     extra |-> FALSE]

BaselineReturned(serialized, counts, records) ==
    [ends |-> "returned", spans |-> serialized, stats |-> counts, records |-> records]
BaselineRaised(error, records) ==
    [ends |-> error, spans |-> <<>>,
     stats |-> [regex_spans |-> 0, ner_spans |-> 0, total_spans |-> 0,
                sentences |-> 0, passages |-> 0],
     records |-> records]
BaselineNotCalled == BaselineRaised("not_called", <<>>)

\* process_article; records is what passage_records returned
process_article(art, pattern, has_pipeline) ==
    LET records == passage_records(art)
        found == PassageSpans(records, pattern, has_pipeline)
        deduped == dedupe_spans(found.spans)
        validated == validate_spans([i \in 1..Len(deduped) |-> to_dict(deduped[i])])
    IN  IF ~validated.ok THEN BaselineRaised("ValueError", records)
        ELSE BaselineReturned(
                 validated.spans,
                 [regex_spans |->
                     Len(SelectSeq(found.spans, LAMBDA s : s.source = "regex")),
                  ner_spans |-> Len(SelectSeq(found.spans, LAMBDA s : s.source = "ner")),
                  total_spans |-> Len(validated.spans),
                  sentences |-> found.sentences,
                  passages |-> found.passages],
                 records)

\* one call process_article(article, ner_pipeline=...)
ProcessArticle ==
    /\ base_result = BaselineNotCalled
    /\ base_result' = process_article(base_article, base_pattern, base_ner)
    /\ UNCHANGED <<base_article, base_pattern, base_ner>>
    /\ UNCHANGED <<verifySpanVars, verifyDocVars, reportVars, batchVars, geminiVars, runnerVars, validateVars, runVerifierVars, dedupeVars, segmentVars, nerVars, peopleVars, simpleVars, phoneVars, httpVars, ruleBatchVars>>

BaselineAlphabet == {"O", "t", " ", ".", "\n"}

BaselineParagraphs == SeqsUpTo(BaselineAlphabet, MaxParagraphLen)

\* the stored passages of an article: slices of its full text
StoredPassages(paragraphs) ==
    LET text == build_full_text(paragraphs)
        slices == {Passage(0, Slice(text, start, end), start, end) :
                      start \in 0..Len(text), end \in 0..Len(text)}
    IN  SeqsUpTo({p \in slices : p.start < p.end}, MaxPassages)

\* articles of one paragraph, with or without stored passages, and articles of
\* two short paragraphs without stored passages
BaselineArticles ==
    UNION {{[paragraphs |-> <<paragraph>>, passages |-> stored] :
                stored \in StoredPassages(<<paragraph>>)} :
           paragraph \in BaselineParagraphs}
    \cup
    {[paragraphs |-> paragraphs, passages |-> <<>>] :
        paragraphs \in [1..2 -> SeqsUpTo({"O", "t", " "}, 2)]}

\* the matches of a pattern in a sentence
RECURSIVE SubsetsUpTo(_, _)
SubsetsUpTo(S, n) ==
    IF n = 0 THEN {{}}
    ELSE LET smaller == SubsetsUpTo(S, n - 1)
         IN  smaller \cup {s \cup {m} : s \in smaller, m \in S}

DetectorMatches ==
    {m \in [start : 0..(MaxParagraphLen - 1), end : 1..MaxParagraphLen,
            normalizes : BOOLEAN] : m.start < m.end}

DetectorPatterns ==
    {pattern \in SubsetsUpTo(DetectorMatches, MaxMatches) :
        /\ \A m \in pattern, other \in pattern :
              m # other => (m.end <= other.start \/ other.end <= m.start)}

IdleBaseline ==
    /\ base_article = [paragraphs |-> <<>>, passages |-> <<>>]
    /\ base_pattern = {}
    /\ base_ner = FALSE
    /\ base_result = BaselineNotCalled

InputsBaseline ==
    /\ base_article \in BaselineArticles
    /\ base_pattern \in DetectorPatterns
    /\ base_ner \in BOOLEAN
    /\ base_result = BaselineNotCalled

(***************************************************************************)
(* _normalize_phone (src/extraction/regex_detectors.py)                    *)
(*                                                                         *)
(* The argument is the text that PHONE_PATTERN matched: +84, 84 or 0, then *)
(* 8 to 10 digits, each optionally preceded by one separator.              *)
(***************************************************************************)
\* the digits after the prefix in PHONE_PATTERN: {8,10}
MinTailDigits == 8
MaxTailDigits == 10

PhoneDigits == {"0", "4", "8", "9"}

\* re.sub(r"\D", "", text)
RawDigits(text) == SelectSeq(text, LAMBDA c : c \in PhoneDigits)

\* str.startswith
StartsWith(text, prefix) ==
    Len(text) >= Len(prefix) /\ SubSeq(text, 1, Len(prefix)) = prefix

\* str.lstrip("0")
RECURSIVE LStripZeros(_)
LStripZeros(text) ==
    IF text # <<>> /\ Head(text) = "0" THEN LStripZeros(Tail(text)) ELSE text

\* the national number that _normalize_phone derives from the digits
National(raw_digits) ==
    IF StartsWith(raw_digits, <<"8", "4">>)
    THEN LET national == SubSeq(raw_digits, 3, Len(raw_digits))
         IN  IF StartsWith(national, <<"0">>) THEN national ELSE <<"0">> \o national
    ELSE raw_digits

NoPhone == [accepted |-> FALSE, normalized |-> <<>>, e164 |-> <<>>]

\* _normalize_phone
normalize_phone(matched) ==
    LET raw_digits == RawDigits(matched)
        national == National(raw_digits)
    IN  IF Len(raw_digits) < 9 THEN NoPhone
        ELSE IF Len(national) \notin {10, 11} THEN NoPhone
        ELSE [accepted |-> TRUE, normalized |-> national,
              e164 |-> <<"+", "8", "4">> \o LStripZeros(national)]

PhoneNotCalled == [called |-> FALSE, value |-> NoPhone]

\* RegexDetector.detect calling the normalizer on one match
NormalizePhone ==
    /\ ~phone_result.called
    /\ phone_result' = [called |-> TRUE, value |-> normalize_phone(phone_match)]
    /\ UNCHANGED phone_match
    /\ UNCHANGED <<verifySpanVars, verifyDocVars, reportVars, batchVars, geminiVars, runnerVars, validateVars, runVerifierVars, dedupeVars, segmentVars, nerVars, peopleVars, simpleVars, baselineVars, httpVars, ruleBatchVars>>

\* the texts PHONE_PATTERN matches, over the digits 0 and 9, with or without
\* a blank after the prefix
PhonePrefixes == {<<"+", "8", "4">>, <<"8", "4">>, <<"0">>}

PhoneTails ==
    UNION {[1..n -> {"0", "9"}] : n \in MinTailDigits..MaxTailDigits}

PhoneMatches ==
    {prefix \o separator \o tail :
        prefix \in PhonePrefixes, separator \in {<<>>, <<" ">>}, tail \in PhoneTails}

IdlePhone ==
    /\ phone_match = <<>>
    /\ phone_result = PhoneNotCalled

InputsPhone ==
    /\ phone_match \in PhoneMatches
    /\ phone_result = PhoneNotCalled

(***************************************************************************)
(* HttpFetcher.get (src/utils/http.py)                                     *)
(*                                                                         *)
(* A request either returns a response that raise_for_status accepts or    *)
(* raises a requests.RequestException; the exception of attempt n is       *)
(* written RequestError(n).  requests is the list of the outcomes of the   *)
(* attempts made, sleeps the list of the arguments of time.sleep.          *)
(***************************************************************************)
RequestError(attempt) == [kind |-> "RequestException", attempt |-> attempt]
NoError == [kind |-> "None", attempt |-> 0]

\* the call before its first step: last_error = None, attempt = 1
HttpStart ==
    [pc |-> "loop", attempt |-> 1, last_error |-> NoError,
     requests |-> <<>>, sleeps |-> <<>>, raised |-> NoError]

\* one pass of the loop in which the request succeeds: return response
RequestSucceeds ==
    /\ http_call.pc = "loop"
    /\ http_call.attempt <= http_fetcher.max_retries
    /\ http_call' = [http_call EXCEPT !.pc = "returned",
                                     !.requests = Append(@, "response")]
    /\ UNCHANGED http_fetcher
    /\ UNCHANGED <<verifySpanVars, verifyDocVars, reportVars, batchVars, geminiVars, runnerVars, validateVars, runVerifierVars, dedupeVars, segmentVars, nerVars, peopleVars, simpleVars, baselineVars, phoneVars, ruleBatchVars>>

\* one pass of the loop in which the request fails: the handler keeps the
\* exception and breaks on the last attempt, else goes on to sleep
RequestFails ==
    /\ http_call.pc = "loop"
    /\ http_call.attempt <= http_fetcher.max_retries
    /\ http_call' = [http_call EXCEPT
           !.pc = IF http_call.attempt = http_fetcher.max_retries
                  THEN "after_loop" ELSE "sleep",
           !.last_error = RequestError(http_call.attempt),
           !.requests = Append(@, "error")]
    /\ UNCHANGED http_fetcher
    /\ UNCHANGED <<verifySpanVars, verifyDocVars, reportVars, batchVars, geminiVars, runnerVars, validateVars, runVerifierVars, dedupeVars, segmentVars, nerVars, peopleVars, simpleVars, baselineVars, phoneVars, ruleBatchVars>>

\* time.sleep(self.backoff_seconds * attempt), then the next attempt
Sleep ==
    /\ http_call.pc = "sleep"
    /\ http_call' = [http_call EXCEPT
           !.pc = "loop",
           !.attempt = @ + 1,
           !.sleeps = Append(@, http_fetcher.backoff_seconds * http_call.attempt)]
    /\ UNCHANGED http_fetcher
    /\ UNCHANGED <<verifySpanVars, verifyDocVars, reportVars, batchVars, geminiVars, runnerVars, validateVars, runVerifierVars, dedupeVars, segmentVars, nerVars, peopleVars, simpleVars, baselineVars, phoneVars, ruleBatchVars>>

\* what follows the loop: assert last_error is not None; raise last_error.
\* With assertions compiled out (python -O) raise None is a TypeError.
RaiseLastError ==
    /\ \/ http_call.pc = "after_loop"
       \/ http_call.pc = "loop" /\ http_call.attempt > http_fetcher.max_retries
    /\ http_call' = [http_call EXCEPT
           !.pc = "raised",
           !.raised = IF http_call.last_error # NoError THEN http_call.last_error
                      ELSE IF http_fetcher.assertions
                           THEN [kind |-> "AssertionError", attempt |-> 0]
                           ELSE [kind |-> "TypeError", attempt |-> 0]]
    /\ UNCHANGED http_fetcher
    /\ UNCHANGED <<verifySpanVars, verifyDocVars, reportVars, batchVars, geminiVars, runnerVars, validateVars, runVerifierVars, dedupeVars, segmentVars, nerVars, peopleVars, simpleVars, baselineVars, phoneVars, ruleBatchVars>>

NextHttp == RequestSucceeds \/ RequestFails \/ Sleep \/ RaiseLastError

\* the call that never started
HttpIdle == [HttpStart EXCEPT !.pc = "not_called"]

IdleHttp ==
    /\ http_fetcher = [max_retries |-> 0, backoff_seconds |-> 0, assertions |-> TRUE]
    /\ http_call = HttpIdle

InputsHttp ==
    /\ http_fetcher \in [max_retries : 0..MaxRetries, backoff_seconds : 0..MaxBackoff,
                         assertions : BOOLEAN]
    /\ http_call = HttpStart

(***************************************************************************)
(* The rule-based batch validator (scripts/workflow_b_validator.py)        *)
(*                                                                         *)
(* The output directory maps file names to what the files hold.  A report  *)
(* file holds the summary of its report, the number of people and the      *)
(* model named in the input file; _batch_summary.json holds the batch      *)
(* summary.  Names are listed in the order of sorted().                    *)
(***************************************************************************)
SummaryName == "_batch_summary.json"

\* sorted(["A.json", "_batch_summary.json", "b.json"]): "A" < "_" < "b"
SortedNames == <<"A.json", SummaryName, "b.json">>

InputNames == {"A.json", "b.json"}

AbsentFile == [kind |-> "absent"]

\* report.model_dump(mode="json"), by the keys main reads
SavedReport(rep, people, model) ==
    [kind |-> "report", summary |-> rep.summary, total_people_extracted |-> people,
     original_model |-> model]

\* BatchValidationSummary(total_files_processed=n, ..., original_model="unknown")
BatchValidationSummary(n) ==
    [total_files_processed |-> n, total_files_with_issues |-> 0, total_issues |-> 0,
     total_people_extracted |-> 0,
     critical_issues |-> 0, errors |-> 0, warnings |-> 0, info_issues |-> 0,
     hallucinations |-> 0, wrong_positions |-> 0, missing_entities |-> 0,
     schema_violations |-> 0, wrong_law_articles |-> 0,
     original_model |-> "unknown"]

SavedSummary(content) == [kind |-> "summary", content |-> content]

\* report_data.get("summary", {}) with the defaults of summary.get(key, 0); the
\* batch summary file has no key summary
ReadSummary(file) ==
    IF file.kind = "report"
    THEN file.summary @@ [total_people_extracted |-> file.total_people_extracted]
    ELSE ValidationSummary @@ [total_people_extracted |-> 0]

\* report_data.get("original_model", "unknown")
ReadOriginalModel(file) ==
    IF file.kind = "report" THEN file.original_model ELSE file.content.original_model

\* one pass of the loop over report_files
AddReportFile(batch_summary, file) ==
    LET s == ReadSummary(file)
    IN  [batch_summary EXCEPT
            !.total_people_extracted = @ + s.total_people_extracted,
            !.total_issues = @ + s.total_issues_found,
            !.total_files_with_issues = IF s.total_issues_found > 0 THEN @ + 1 ELSE @,
            !.critical_issues = @ + s.critical_issues,
            !.errors = @ + s.errors,
            !.warnings = @ + s.warnings,
            !.info_issues = @ + s.info_issues,
            !.hallucinations = @ + s.hallucinations,
            !.wrong_positions = @ + s.wrong_positions,
            !.missing_entities = @ + s.missing_entities,
            !.schema_violations = @ + s.schema_violations,
            !.wrong_law_articles = @ + s.wrong_law_articles,
            !.original_model = IF @ = "unknown" THEN ReadOriginalModel(file) ELSE @]

\* sorted(output_dir.glob("*.json")): the names of the files that exist
report_files(dir) == SelectSeq(SortedNames, LAMBDA name : dir[name] # AbsentFile)

RECURSIVE AddReportFiles(_, _, _)
AddReportFiles(batch_summary, dir, names) ==
    IF names = <<>> THEN batch_summary
    ELSE AddReportFiles(AddReportFile(batch_summary, dir[Head(names)]), dir, Tail(names))

\* the batch summary that main builds from the output directory
generate_batch_summary(dir) ==
    AddReportFiles(BatchValidationSummary(Len(report_files(dir))), dir, report_files(dir))

\* sorted(input_dir.glob("*.json"))
json_files == SelectSeq(SortedNames, LAMBDA name : name \in DOMAIN reports_input)

\* the reports a validation can yield: none, one or two issues
RuleReports ==
    {ValidationReport,
     add_issue(ValidationReport, [type |-> "hallucination", severity |-> "critical"]),
     add_issue(add_issue(ValidationReport,
                         [type |-> "wrong_position", severity |-> "error"]),
               [type |-> "incomplete_extraction", severity |-> "info"])}

RunStart(number, skip_existing, summary_only) ==
    [pc |-> IF summary_only THEN "summary" ELSE "loop", index |-> 1, number |-> number,
     skip_existing |-> skip_existing,
     success_count |-> 0, error_count |-> 0, skipped_count |-> 0,
     dir_before |-> reports_dir]

\* after a pass of the loop: the next file, or the batch summary
Advance(run) ==
    [run EXCEPT !.index = @ + 1,
                !.pc = IF run.index = Len(json_files) THEN "summary" ELSE "loop"]

\* a pass of the loop of main over a file that is skipped
SkipFile ==
    /\ reports_run.pc = "loop"
    /\ reports_run.skip_existing
    /\ reports_dir[json_files[reports_run.index]] # AbsentFile
    /\ reports_run' = Advance([reports_run EXCEPT !.skipped_count = @ + 1])
    /\ UNCHANGED <<reports_input, reports_dir>>
    /\ UNCHANGED <<verifySpanVars, verifyDocVars, reportVars, batchVars, geminiVars, runnerVars, validateVars, runVerifierVars, dedupeVars, segmentVars, nerVars, peopleVars, simpleVars, baselineVars, phoneVars, httpVars>>

\* a pass of the loop in which process_file validates and saves the report
ValidateFile ==
    /\ reports_run.pc = "loop"
    /\ ~(reports_run.skip_existing /\ reports_dir[json_files[reports_run.index]] # AbsentFile)
    /\ \E rep \in RuleReports, people \in 0..1 :
          reports_dir' =
              [reports_dir EXCEPT ![json_files[reports_run.index]] =
                  SavedReport(rep, people, reports_input[json_files[reports_run.index]])]
    /\ reports_run' = Advance([reports_run EXCEPT !.success_count = @ + 1])
    /\ UNCHANGED reports_input
    /\ UNCHANGED <<verifySpanVars, verifyDocVars, reportVars, batchVars, geminiVars, runnerVars, validateVars, runVerifierVars, dedupeVars, segmentVars, nerVars, peopleVars, simpleVars, baselineVars, phoneVars, httpVars>>

\* a pass of the loop in which process_file catches an exception
FileFails ==
    /\ reports_run.pc = "loop"
    /\ ~(reports_run.skip_existing /\ reports_dir[json_files[reports_run.index]] # AbsentFile)
    /\ reports_run' = Advance([reports_run EXCEPT !.error_count = @ + 1])
    /\ UNCHANGED <<reports_input, reports_dir>>
    /\ UNCHANGED <<verifySpanVars, verifyDocVars, reportVars, batchVars, geminiVars, runnerVars, validateVars, runVerifierVars, dedupeVars, segmentVars, nerVars, peopleVars, simpleVars, baselineVars, phoneVars, httpVars>>

\* main from "Generate batch summary" on: with no file in the output directory
\* it exits, else it writes _batch_summary.json
GenerateBatchSummary ==
    /\ reports_run.pc = "summary"
    /\ reports_dir' =
          IF report_files(reports_dir) = <<>> THEN reports_dir
          ELSE [reports_dir EXCEPT
                   ![SummaryName] = SavedSummary(generate_batch_summary(reports_dir))]
    /\ reports_run' = [reports_run EXCEPT !.pc = "done"]
    /\ UNCHANGED reports_input
    /\ UNCHANGED <<verifySpanVars, verifyDocVars, reportVars, batchVars, geminiVars, runnerVars, validateVars, runVerifierVars, dedupeVars, segmentVars, nerVars, peopleVars, simpleVars, baselineVars, phoneVars, httpVars>>

\* the script is run again over the same directories
RunAgain ==
    /\ reports_run.pc = "done"
    /\ reports_run.number < MaxValidatorRuns
    /\ \E skip_existing \in BOOLEAN, summary_only \in BOOLEAN :
          reports_run' = RunStart(reports_run.number + 1, skip_existing, summary_only)
    /\ UNCHANGED <<reports_input, reports_dir>>
    /\ UNCHANGED <<verifySpanVars, verifyDocVars, reportVars, batchVars, geminiVars, runnerVars, validateVars, runVerifierVars, dedupeVars, segmentVars, nerVars, peopleVars, simpleVars, baselineVars, phoneVars, httpVars>>

NextRuleBatch == SkipFile \/ ValidateFile \/ FileFails \/ GenerateBatchSummary \/ RunAgain

EmptyDir == [name \in InputNames \cup {SummaryName} |-> AbsentFile]

IdleRuleBatch ==
    /\ reports_input = <<>>
    /\ reports_dir = EmptyDir
    /\ reports_run = [pc |-> "not_called", index |-> 1, number |-> 0,
                      skip_existing |-> TRUE,
                      success_count |-> 0, error_count |-> 0, skipped_count |-> 0,
                      dir_before |-> EmptyDir]

\* the first run: at least one input file, an empty output directory
InputsRuleBatch ==
    /\ reports_input \in
          UNION {[names -> {"m1", "m2"}] : names \in (SUBSET InputNames) \ {{}}}
    /\ reports_dir = EmptyDir
    /\ \E skip_existing \in BOOLEAN, summary_only \in BOOLEAN :
          reports_run = [pc |-> IF summary_only THEN "summary" ELSE "loop", index |-> 1,
                         number |-> 1, skip_existing |-> skip_existing,
                         success_count |-> 0, error_count |-> 0, skipped_count |-> 0,
                         dir_before |-> EmptyDir]

(***************************************************************************)
(* Specifications: one per subsystem, the inputs drawn by the initial      *)
(* state and the other subsystems idle                                     *)
(***************************************************************************)
InitVerifySpan ==
    InputsVerifySpan /\ IdleVerifyDocument /\ IdleReport /\ IdleBatch /\ IdleGemini /\ IdleGeminiRunner /\ IdleValidateSpan /\ IdleRunVerifier /\ IdleDedupe /\ IdleSegment /\ IdleNer /\ IdlePeople /\ IdleSimpleNer /\ IdleBaseline /\ IdlePhone /\ IdleHttp /\ IdleRuleBatch

SpecVerifySpan == InitVerifySpan /\ [][VerifySpan]_vars

InitVerifyDocument ==
    IdleVerifySpan /\ InputsVerifyDocument /\ IdleReport /\ IdleBatch /\ IdleGemini /\ IdleGeminiRunner /\ IdleValidateSpan /\ IdleRunVerifier /\ IdleDedupe /\ IdleSegment /\ IdleNer /\ IdlePeople /\ IdleSimpleNer /\ IdleBaseline /\ IdlePhone /\ IdleHttp /\ IdleRuleBatch

SpecVerifyDocument == InitVerifyDocument /\ [][VerifyDocument]_vars

InitReport ==
    IdleVerifySpan /\ IdleVerifyDocument /\ IdleReport /\ IdleBatch /\ IdleGemini /\ IdleGeminiRunner /\ IdleValidateSpan /\ IdleRunVerifier /\ IdleDedupe /\ IdleSegment /\ IdleNer /\ IdlePeople /\ IdleSimpleNer /\ IdleBaseline /\ IdlePhone /\ IdleHttp /\ IdleRuleBatch

SpecReport == InitReport /\ [][AddIssue]_vars

InitBatch ==
    IdleVerifySpan /\ IdleVerifyDocument /\ IdleReport /\ IdleBatch /\ IdleGemini /\ IdleGeminiRunner /\ IdleValidateSpan /\ IdleRunVerifier /\ IdleDedupe /\ IdleSegment /\ IdleNer /\ IdlePeople /\ IdleSimpleNer /\ IdleBaseline /\ IdlePhone /\ IdleHttp /\ IdleRuleBatch

SpecBatch == InitBatch /\ [][RegisterReport]_vars

InitGemini ==
    IdleVerifySpan /\ IdleVerifyDocument /\ IdleReport /\ IdleBatch /\ InputsGemini /\ IdleGeminiRunner /\ IdleValidateSpan /\ IdleRunVerifier /\ IdleDedupe /\ IdleSegment /\ IdleNer /\ IdlePeople /\ IdleSimpleNer /\ IdleBaseline /\ IdlePhone /\ IdleHttp /\ IdleRuleBatch

NextGemini == ValidateExtraction \/ RegisterValidated

SpecGemini == InitGemini /\ [][NextGemini]_vars

InitGeminiRunner ==
    IdleVerifySpan /\ IdleVerifyDocument /\ IdleReport /\ IdleBatch /\ IdleGemini /\ IdleGeminiRunner /\ IdleValidateSpan /\ IdleRunVerifier /\ IdleDedupe /\ IdleSegment /\ IdleNer /\ IdlePeople /\ IdleSimpleNer /\ IdleBaseline /\ IdlePhone /\ IdleHttp /\ IdleRuleBatch

NextGeminiRunner == StartRun \/ ProcessUnit \/ FinishRun \/ SummaryOnly \/ MarkReport

SpecGeminiRunner == InitGeminiRunner /\ [][NextGeminiRunner]_vars
InitValidateSpan ==
    IdleVerifySpan /\ IdleVerifyDocument /\ IdleReport /\ IdleBatch /\ IdleGemini /\ IdleGeminiRunner /\ InputsValidateSpan /\ IdleRunVerifier /\ IdleDedupe /\ IdleSegment /\ IdleNer /\ IdlePeople /\ IdleSimpleNer /\ IdleBaseline /\ IdlePhone /\ IdleHttp /\ IdleRuleBatch

SpecValidateSpan == InitValidateSpan /\ [][ValidateSpan]_vars
InitRunVerifier ==
    IdleVerifySpan /\ IdleVerifyDocument /\ IdleReport /\ IdleBatch /\ IdleGemini /\ IdleGeminiRunner /\ IdleValidateSpan /\ InputsRunVerifier /\ IdleDedupe /\ IdleSegment /\ IdleNer /\ IdlePeople /\ IdleSimpleNer /\ IdleBaseline /\ IdlePhone /\ IdleHttp /\ IdleRuleBatch

NextRunVerifier == VerifyNextFile \/ FinishVerifier

SpecRunVerifier == InitRunVerifier /\ [][NextRunVerifier]_vars
InitDedupe ==
    IdleVerifySpan /\ IdleVerifyDocument /\ IdleReport /\ IdleBatch /\ IdleGemini /\ IdleGeminiRunner /\ IdleValidateSpan /\ IdleRunVerifier /\ InputsDedupe /\ IdleSegment /\ IdleNer /\ IdlePeople /\ IdleSimpleNer /\ IdleBaseline /\ IdlePhone /\ IdleHttp /\ IdleRuleBatch

SpecDedupe == InitDedupe /\ [][DedupeSpansCall]_vars
InitSegment ==
    IdleVerifySpan /\ IdleVerifyDocument /\ IdleReport /\ IdleBatch /\ IdleGemini /\ IdleGeminiRunner /\ IdleValidateSpan /\ IdleRunVerifier /\ IdleDedupe /\ InputsSegment /\ IdleNer /\ IdlePeople /\ IdleSimpleNer /\ IdleBaseline /\ IdlePhone /\ IdleHttp /\ IdleRuleBatch

SpecSegment == InitSegment /\ [][SegmentSentences]_vars
InitNer ==
    IdleVerifySpan /\ IdleVerifyDocument /\ IdleReport /\ IdleBatch /\ IdleGemini /\ IdleGeminiRunner /\ IdleValidateSpan /\ IdleRunVerifier /\ IdleDedupe /\ IdleSegment /\ InputsNer /\ IdlePeople /\ IdleSimpleNer /\ IdleBaseline /\ IdlePhone /\ IdleHttp /\ IdleRuleBatch

NextNer == CreatePipeline \/ Extract

SpecNer == InitNer /\ [][NextNer]_vars
InitPeople ==
    IdleVerifySpan /\ IdleVerifyDocument /\ IdleReport /\ IdleBatch /\ IdleGemini /\ IdleGeminiRunner /\ IdleValidateSpan /\ IdleRunVerifier /\ IdleDedupe /\ IdleSegment /\ IdleNer /\ InputsPeople /\ IdleSimpleNer /\ IdleBaseline /\ IdlePhone /\ IdleHttp /\ IdleRuleBatch

SpecPeople == InitPeople /\ [][ValidatePeople]_vars
InitSimpleNer ==
    IdleVerifySpan /\ IdleVerifyDocument /\ IdleReport /\ IdleBatch /\ IdleGemini /\ IdleGeminiRunner /\ IdleValidateSpan /\ IdleRunVerifier /\ IdleDedupe /\ IdleSegment /\ IdleNer /\ IdlePeople /\ InputsSimpleNer /\ IdleBaseline /\ IdlePhone /\ IdleHttp /\ IdleRuleBatch

SpecSimpleNer == InitSimpleNer /\ [][Entities]_vars
InitBaseline ==
    IdleVerifySpan /\ IdleVerifyDocument /\ IdleReport /\ IdleBatch /\ IdleGemini /\ IdleGeminiRunner /\ IdleValidateSpan /\ IdleRunVerifier /\ IdleDedupe /\ IdleSegment /\ IdleNer /\ IdlePeople /\ IdleSimpleNer /\ InputsBaseline /\ IdlePhone /\ IdleHttp /\ IdleRuleBatch

SpecBaseline == InitBaseline /\ [][ProcessArticle]_vars
InitPhone ==
    IdleVerifySpan /\ IdleVerifyDocument /\ IdleReport /\ IdleBatch /\ IdleGemini /\ IdleGeminiRunner /\ IdleValidateSpan /\ IdleRunVerifier /\ IdleDedupe /\ IdleSegment /\ IdleNer /\ IdlePeople /\ IdleSimpleNer /\ IdleBaseline /\ InputsPhone /\ IdleHttp /\ IdleRuleBatch

SpecPhone == InitPhone /\ [][NormalizePhone]_vars
InitHttp ==
    IdleVerifySpan /\ IdleVerifyDocument /\ IdleReport /\ IdleBatch /\ IdleGemini /\ IdleGeminiRunner /\ IdleValidateSpan /\ IdleRunVerifier /\ IdleDedupe /\ IdleSegment /\ IdleNer /\ IdlePeople /\ IdleSimpleNer /\ IdleBaseline /\ IdlePhone /\ InputsHttp /\ IdleRuleBatch

SpecHttp == InitHttp /\ [][NextHttp]_vars

\* requests time out and time.sleep returns, so a call that can take a step
\* takes it
SpecHttpLive == SpecHttp /\ WF_vars(NextHttp)
InitRuleBatch ==
    IdleVerifySpan /\ IdleVerifyDocument /\ IdleReport /\ IdleBatch /\ IdleGemini /\ IdleGeminiRunner /\ IdleValidateSpan /\ IdleRunVerifier /\ IdleDedupe /\ IdleSegment /\ IdleNer /\ IdlePeople /\ IdleSimpleNer /\ IdleBaseline /\ IdlePhone /\ IdleHttp /\ InputsRuleBatch

SpecRuleBatch == InitRuleBatch /\ [][NextRuleBatch]_vars

(***************************************************************************)
(* Properties of verify_span                                               *)
(***************************************************************************)
VerifySpanCalled == result # NoResult

\* the slice the call looked at
CalledSlice == Slice(full_text, span.start, span.end)

\* C1: verify_span returns exactly one outcome, decided by the first applicable
\* check: out_of_bounds when end > len(full_text); otherwise empty_slice when the
\* slice is empty; otherwise text_mismatch when the normalized slice differs from
\* the normalized span text; otherwise verified with no reason.  Every span with
\* end > len(full_text) fails with out_of_bounds whatever its start and text are.
C1_OutcomeByFirstCheck ==
    VerifySpanCalled =>
        /\ result.verified <=> result.reason = "none"
        /\ span.end > Len(full_text)
              => result.reason = "out_of_bounds"
        /\ (span.end <= Len(full_text) /\ CalledSlice = <<>>)
              => result.reason = "empty_slice"
        /\ (span.end <= Len(full_text) /\ CalledSlice # <<>>
              /\ CleanText(CalledSlice) # CleanText(span.text))
              => result.reason = "text_mismatch"
        /\ (span.end <= Len(full_text) /\ CalledSlice # <<>>
              /\ CleanText(CalledSlice) = CleanText(span.text))
              => result.verified

\* a span out of bounds whose slice is empty too (start >= end): the order decides
C1_Witness ==
    /\ VerifySpanCalled
    /\ span.end > Len(full_text)
    /\ span.start >= span.end
    /\ result.reason = "out_of_bounds"

\* C2 as stated: every span whose slice normalizes to the same string as its text
\* is verified, spans with start >= end and whitespace-only texts included.
C2_NormalizedEqualImpliesVerified ==
    (VerifySpanCalled /\ CleanText(CalledSlice) = CleanText(span.text))
        => result.verified

\* C2 amended: a span with end <= len(full_text) whose slice is not empty and
\* normalizes to the same string as its text is verified.
C2_InBoundsNormalizedEqualImpliesVerified ==
    (/\ VerifySpanCalled
     /\ span.end <= Len(full_text)
     /\ CalledSlice # <<>>
     /\ CleanText(CalledSlice) = CleanText(span.text))
        => (result.verified /\ result.span.verifier_pass)

\* a verified span whose text equals the slice only after normalization
C2_Witness ==
    /\ VerifySpanCalled
    /\ result.verified
    /\ CalledSlice # span.text
    /\ CleanText(CalledSlice) = CleanText(span.text)

(***************************************************************************)
(* Properties of verify_document                                           *)
(***************************************************************************)
VerifyDocumentCalled == stats # NoStats

Occurrences(seq, x) == Cardinality({i \in 1..Len(seq) : seq[i] = x})

\* the input span a verified span was made from
AsGiven(v) == [v EXCEPT !.verifier_pass = FALSE]

VerifiedAsGiven == [i \in 1..Len(verified_spans) |-> AsGiven(verified_spans[i])]

FailedSpans == [i \in 1..Len(failures) |-> failures[i].span]

RECURSIVE SumOfCounts(_)
SumOfCounts(f) ==
    IF DOMAIN f = {} THEN 0
    ELSE LET k == CHOOSE x \in DOMAIN f : TRUE
         IN  f[k] + SumOfCounts([x \in DOMAIN f \ {k} |-> f[x]])

\* C3: verify_document never silently drops a span: each input span appears in
\* exactly one of the verified list and the failures list, every failure carries
\* a reason, input_spans = verified_spans + dropped_spans, and the histogram of
\* failure reasons sums to dropped_spans.
C3_NoSpanDropped ==
    VerifyDocumentCalled =>
        /\ \A i \in 1..Len(spans) :
              /\ Occurrences(spans, spans[i])
                    = Occurrences(VerifiedAsGiven, spans[i])
                      + Occurrences(FailedSpans, spans[i])
              /\ \/ Occurrences(VerifiedAsGiven, spans[i]) = 0
                 \/ Occurrences(FailedSpans, spans[i]) = 0
        /\ Len(verified_spans) + Len(failures) = Len(spans)
        /\ \A i \in 1..Len(failures) :
              /\ ~failures[i].verified
              /\ failures[i].reason \in {"out_of_bounds", "empty_slice", "text_mismatch"}
        /\ stats.input_spans = Len(spans)
        /\ stats.verified_spans = Len(verified_spans)
        /\ stats.dropped_spans = Len(failures)
        /\ stats.input_spans = stats.verified_spans + stats.dropped_spans
        /\ SumOfCounts(stats.failure_reasons) = stats.dropped_spans

\* a document with a verified span and two failures of different reasons
C3_Witness ==
    /\ VerifyDocumentCalled
    /\ Len(verified_spans) >= 1
    /\ Len(failures) >= 1
    /\ \E i \in 1..Len(failures) : failures[i].reason = "empty_slice"

(***************************************************************************)
(* Properties of ValidationReport.add_issue                                *)
(***************************************************************************)
IssuesOfSeverity(sev) ==
    Cardinality({i \in 1..Len(report.issues) : report.issues[i].severity = sev})

SeverityCounterSum ==
    report.summary.critical_issues + report.summary.errors
    + report.summary.warnings + report.summary.info_issues

TypeCounterSum ==
    report.summary.hallucinations + report.summary.wrong_positions
    + report.summary.missing_entities + report.summary.schema_violations
    + report.summary.wrong_law_articles

\* C4: after any sequence of add_issue calls on a report that started empty,
\* total_issues_found is the number of issues and each severity counter is the
\* number of issues of that severity, so the four counters sum to len(issues).
C4_SeverityCountersMatchIssues ==
    /\ report.summary.total_issues_found = Len(report.issues)
    /\ report.summary.critical_issues = IssuesOfSeverity("critical")
    /\ report.summary.errors = IssuesOfSeverity("error")
    /\ report.summary.warnings = IssuesOfSeverity("warning")
    /\ report.summary.info_issues = IssuesOfSeverity("info")
    /\ SeverityCounterSum = Len(report.issues)

\* a report with issues of several severities, info among them
C4_Witness ==
    /\ Len(report.issues) = MaxIssues
    /\ report.summary.info_issues >= 1
    /\ report.summary.critical_issues >= 1
    /\ report.summary.errors >= 1

\* C5: every add_issue call increments exactly one type counter, for every issue
\* type of the taxonomy, so the type counters sum to len(issues).
C5_TypeCountersSumToIssues == TypeCounterSum = Len(report.issues)

(***************************************************************************)
(* Properties of GeminiBatchSummary.register_report                        *)
(***************************************************************************)
Abs(x) == IF x < 0 THEN -x ELSE x

\* p (in hundredths of a percent) is 100 * count / total rounded to two decimals
IsRoundedPercentage(p, count, total) ==
    2 * Abs(p * total - 10000 * count) <= total

C7_UsableFlagOnlyNarrows ==
    [][/\ batch'.total_usable \in {batch.total_usable, batch.total_usable + 1}
       /\ batch'.total_usable > batch.total_usable => RuleUsable(last_report')
       /\ last_report'.usable = "false" => batch'.total_usable = batch.total_usable
      ]_vars

\* a report the model calls usable and the rules do not, registered and not counted
C7_Witness ==
    /\ batch.total_files_processed >= 1
    /\ last_report.usable = "true"
    /\ ~RuleUsable(last_report)
    /\ batch.total_usable = 0

GeminiCalled == outcome # "not_called"

\* json.loads raises on the candidate
NotJson(candidate) == JsonLoads(Strip(candidate), members).kind = "error"

\* none of the three attempts parses the response: the raw text, the text without
\* its code fences, the substring from the first "{" to the last "}"
Unparseable ==
    /\ NotJson(model_response)
    /\ NotJson(strip_code_fences(model_response))
    /\ NotJson(extract_json_block(model_response))

HasParsingError ==
    \E i \in 1..Len(gemini_report.issues) : gemini_report.issues[i].type = "parsing_error"

\* C9: when none of the three attempts parses the response text, the validator
\* returns a report with exactly one issue, of type parsing_error, verdict unsure
\* and no missing people, and no exception escapes.
C9_UnparseableYieldsParsingError ==
    (GeminiCalled /\ call_mode = "text" /\ Unparseable) =>
        /\ outcome = "returned"
        /\ Len(gemini_report.issues) = 1
        /\ gemini_report.issues[1].type = "parsing_error"
        /\ gemini_report.verdict = "unsure"
        /\ gemini_report.missing_people = <<>>

\* a fenced response with braces in it that no attempt parses
C9_Witness ==
    /\ GeminiCalled
    /\ call_mode = "text"
    /\ Unparseable
    /\ Head(model_response) = "fence"
    /\ extract_json_block(model_response) # <<>>
    /\ outcome = "returned"
    /\ HasParsingError

\* what the response parses to
ParsedResponse == parse_model_response(model_response, members)

\* a parsed value of the wrong shape: no object, a field missing, or a field or an
\* entry of the wrong type
Misshapen(p) ==
    \/ p.kind = "list"
    \/ /\ p.kind = "dict"
       /\ \/ p.verdict \in {"absent", "#5"}
          \/ p.issues.kind # "list"
          \/ p.missing_people.kind # "list"
          \/ \E i \in 1..Len(p.issues.items) :
                \/ p.issues.items[i].kind # "dict"
                \/ p.issues.items[i].type = "#5"
                \/ p.issues.items[i].description = "#5"
          \/ \E i \in 1..Len(p.missing_people.items) :
                \/ p.missing_people.items[i].kind # "dict"
                \/ p.missing_people.items[i].name \in {"absent", "#5"}

\* C10: when the response is valid JSON of the wrong shape (fields missing, no
\* object, fields of the wrong type), validate_extraction still returns a report,
\* containing a parsing_error issue, and raises nothing.
C10_MisshapenJsonYieldsParsingError ==
    (/\ GeminiCalled
     /\ call_mode = "text"
     /\ ParsedResponse.kind # "error"
     /\ Misshapen(ParsedResponse))
        => (outcome = "returned" /\ HasParsingError)

(***************************************************************************)
(* Properties of the Gemini batch runner                                   *)
(***************************************************************************)
\* C11: a unit whose request to the external model failed in the current run is
\* counted as failed and has no report file at its output path (so that a later
\* run with skip-existing attempts it again)
C11_FailedCallLeavesNoArtifact ==
    /\ \A unit \in audit.request_failed : ~output_dir[unit].exists
    /\ Cardinality(audit.request_failed) <= runner.failed

\* C12: in a run with skip-existing, a pass of the loop leaves a report file that
\* exists as it is, does not pass its unit to the validator and does not register
\* it; in every run processed + skipped + failed is the number of input files
\* considered so far, and the number of input files when the run ends
C12_ExistingReportsLeftAlone ==
    /\ [](runner.processed + runner.skipped + runner.failed = runner.index - 1)
    /\ [][(runner.pc = "loop" /\ runner.skip_existing)
            => /\ \A unit \in Units :
                    output_dir[unit].exists
                        => /\ output_dir'[unit] = output_dir[unit]
                           /\ unit \notin (audit'.validated \ audit.validated)
               /\ (runner.index \in Units /\ output_dir[runner.index].exists)
                    => /\ runner'.summary = runner.summary
                       /\ runner'.skipped = runner.skipped + 1
               /\ runner'.pc = "idle" => runner'.index - 1 = MaxUnits]_vars

\* a second run with skip-existing has ended: it skipped a unit whose report was
\* there and passed another unit to the validator
C12_Witness ==
    /\ runs = 2
    /\ runner.pc = "idle"
    /\ runner.skip_existing
    /\ audit.skipped # {}
    /\ audit.validated # {}
    /\ runner.processed + runner.skipped + runner.failed = MaxUnits

\* C13: after every run the file _batch_summary.json holds the summary obtained
\* by registering every report file of the output directory
C13_SummaryFileIsReplay ==
    (runner.pc = "idle" /\ summary_file.exists)
        => summary_file.summary = build_batch_summary(output_dir)

(***************************************************************************)
(* Properties of validate_span                                             *)
(***************************************************************************)
ValidateSpanCalled == validation # NotValidated

\* C14 as stated: validate_span fails if and only if the text is empty, or start
\* or end is negative, or the confidence is present and outside [0, 1]
C14_RejectedIffTextOffsetsConfidence ==
    ValidateSpanCalled
        => (~validation.ok
              <=> \/ span_payload.text = <<>>
                  \/ span_payload.start < 0
                  \/ span_payload.end < 0
                  \/ /\ span_payload.confidence.present
                     /\ ~(0 <= span_payload.confidence.value /\ span_payload.confidence.value <= 100))

\* C14: validate_span fails if and only if the text is empty, or start or end is
\* negative, or the passage_id is present and negative, or the confidence is
\* present and outside [0, 1], or the payload holds an unrecognized key
C14_RejectedIffSchemaViolated ==
    ValidateSpanCalled
        => (~validation.ok
              <=> \/ span_payload.text = <<>>
                  \/ span_payload.start < 0
                  \/ span_payload.end < 0
                  \/ span_payload.passage_id.present /\ span_payload.passage_id.value < 0
                  \/ /\ span_payload.confidence.present
                     /\ ~(0 <= span_payload.confidence.value /\ span_payload.confidence.value <= 100)
                  \/ span_payload.extra)

\* a payload rejected for its passage_id alone
C14_Witness ==
    /\ ValidateSpanCalled
    /\ ~validation.ok
    /\ span_payload.text # <<>> /\ span_payload.start >= 0 /\ span_payload.end >= 0
    /\ ~span_payload.confidence.present /\ ~span_payload.extra
    /\ span_payload.passage_id = Present(-1)

\* C15: no validated SpanModel has end <= start
C15_ValidatedSpanEndAfterStart ==
    (ValidateSpanCalled /\ validation.ok) => validation.span.end > validation.span.start

(***************************************************************************)
(* Properties of validate_spans and the verifier run                       *)
(***************************************************************************)
VerifierRunOver == verifier_run.pc # "loop"

\* the span is among the verified spans or among the dropped spans of the output
InOutput(s, output) ==
    \/ \E j \in 1..Len(output.spans) : AsGiven(output.spans[j]) = s
    \/ \E j \in 1..Len(output.dropped) : output.dropped[j].span = s

\* C16: when the verifier run is over, every valid span of every span file has
\* been validated and verified (it is in the output file of its document),
\* whatever malformed payloads the span files hold besides
C16_MalformedSpanAbortsOnlyItself ==
    VerifierRunOver
        => \A f \in 1..MaxSpanFiles :
             \A i \in 1..Len(span_files[f]) :
               validate_span(span_files[f][i]).ok
                  => /\ verifier_run.outputs[f].written
                     /\ InOutput(validate_span(span_files[f][i]).span,
                                 verifier_run.outputs[f])

(***************************************************************************)
(* Properties of dedupe_spans                                              *)
(***************************************************************************)
\* the positions of the input that hold a span of this key
InputsOfKey(key) == {i \in 1..Len(dedupe_input) : SpanKey(dedupe_input[i]) = key}

\* the first position among those of the key whose confidence no other reaches
FirstBest(key) ==
    CHOOSE i \in InputsOfKey(key) :
        /\ \A j \in InputsOfKey(key) :
              ConfidenceOrZero(dedupe_input[j]) <= ConfidenceOrZero(dedupe_input[i])
        /\ \A j \in InputsOfKey(key) :
              j < i => ConfidenceOrZero(dedupe_input[j]) < ConfidenceOrZero(dedupe_input[i])

\* C17: dedupe_spans returns exactly one span per distinct key of the input and
\* nothing else; the span kept for a key is the first of the input among those
\* of the key with the highest confidence, a missing confidence counting as 0
C17_OneSpanPerKeyHighestConfidence ==
    dedupe_result.called
        => LET out == dedupe_result.spans
               keys == {SpanKey(dedupe_input[i]) : i \in 1..Len(dedupe_input)}
           IN  /\ Len(out) = Cardinality(keys)
               /\ \A key \in keys :
                     \E i \in 1..Len(out) :
                        /\ out[i] = dedupe_input[FirstBest(key)]
                        /\ \A j \in 1..Len(out) : SpanKey(out[j]) = key => j = i

\* three spans: two of one key and of equal confidence from different sentences,
\* after a span of lower confidence of the same key
C17_Witness ==
    /\ dedupe_result.called
    /\ Len(dedupe_input) = 3
    /\ \A i \in 1..3 : SpanKey(dedupe_input[i]) = SpanKey(dedupe_input[1])
    /\ dedupe_input[1].confidence = Absent
    /\ dedupe_input[2].confidence = Present(80)
    /\ dedupe_input[3].confidence = Present(80)
    /\ dedupe_input[2].sentence_id # dedupe_input[3].sentence_id
    /\ dedupe_result.spans = <<dedupe_input[2]>>

(***************************************************************************)
(* Properties of segment_sentences                                         *)
(***************************************************************************)
\* the pattern finds no sentence: whatever it matches is blank, that is, every
\* character of the text is one that the first part of the pattern does not
\* match, or whitespace that no full stop follows directly
NoSentenceFound ==
    \A p \in 1..Len(segment_text) :
        \/ IsStop(segment_text[p])
        \/ /\ IsSpace(segment_text[p])
           /\ p = Len(segment_text) \/ segment_text[p + 1] # "."

\* C18: every pair (sentence, offset) returned is a non-empty slice of the text
\* at its offset without whitespace at either end, each sentence starts after
\* the end of the one before, and when the pattern finds no sentence and the
\* text is not blank the one pair (text.strip(), leading whitespace) is returned
C18_SentencesAlignWithText ==
    segments.called
        => LET out == segments.sentences
           IN  /\ \A i \in 1..Len(out) :
                     /\ out[i].sentence # <<>>
                     /\ Slice(segment_text, out[i].offset,
                              out[i].offset + Len(out[i].sentence)) = out[i].sentence
                     /\ ~IsSpace(Head(out[i].sentence))
                     /\ ~IsSpace(out[i].sentence[Len(out[i].sentence)])
               /\ \A i \in 1..(Len(out) - 1) :
                     out[i].offset + Len(out[i].sentence) <= out[i + 1].offset
               /\ (NoSentenceFound /\ Strip(segment_text) # <<>>)
                     => out = <<[sentence |-> Strip(segment_text),
                                 offset |-> LeadingWhitespace(segment_text)]>>

\* two sentences, the second after a blank; or the fallback on a full stop
\* between a line break and a blank
C18_Witness ==
    /\ segments.called
    /\ \/ /\ segment_text = <<"a", ".", " ", "a">>
          /\ segments.sentences = <<[sentence |-> <<"a", ".">>, offset |-> 0],
                                    [sentence |-> <<"a">>, offset |-> 3]>>
       \/ /\ segment_text = <<"\n", ".", " ">>
          /\ segments.sentences = <<[sentence |-> <<".">>, offset |-> 1]>>

(***************************************************************************)
(* Properties of create_backend and NerPipeline                            *)
(***************************************************************************)
BackendCreated == ner_created # NotCreated

\* the preference order of AUTO, cut after the first backend that initializes
AutoOrder ==
    IF ner_available.vncorenlp THEN <<"vncorenlp">>
    ELSE IF ner_available.phobert THEN <<"vncorenlp", "phobert">>
    ELSE <<"vncorenlp", "phobert", "simple">>

\* C19: create_backend(AUTO) never raises and returns the first backend of
\* VnCoreNLP, transformer, fallback that initializes, trying them in this order;
\* SIMPLE returns the fallback and tries nothing else; a pinned VNCORENLP or
\* PHOBERT raises when that backend fails to initialize; no backend is returned
\* only for NONE, and then extract returns the empty list
C19_BackendSelection ==
    BackendCreated
        => /\ ner_request = "auto"
                => /\ ~ner_created.raised
                   /\ ner_created.tried = AutoOrder
                   /\ ner_created.backend = AutoOrder[Len(AutoOrder)]
           /\ ner_request = "simple"
                => ner_created = BackendReturned("simple", <<"simple">>)
           /\ ner_request \in {"vncorenlp", "phobert"}
                => /\ ner_created.tried = <<ner_request>>
                   /\ IF ner_available[ner_request]
                      THEN ner_created = BackendReturned(ner_request, <<ner_request>>)
                      ELSE ner_created.raised
           /\ (~ner_created.raised /\ ner_created.backend = "none")
                <=> ner_request = "none"
           /\ (ner_request = "none" /\ ner_extracted.called)
                => ner_extracted.spans = <<>>

\* AUTO with neither optional backend: the fallback, after both were tried, and
\* it extracts from a sentence
C19_Witness ==
    /\ ner_request = "auto"
    /\ ~ner_available.vncorenlp /\ ~ner_available.phobert
    /\ ner_created = BackendReturned("simple", <<"vncorenlp", "phobert", "simple">>)
    /\ ner_extracted.called
    /\ Len(ner_extracted.spans) = MaxEntities

(***************************************************************************)
(* Properties of manual_status                                             *)
(***************************************************************************)
\* the output directory with every mark of a reviewer replaced by this one
Remarked(dir, status) ==
    [unit \in Units |-> [dir[unit] EXCEPT !.report.manual_status = status]]

\* C20: registering a stored report gives the same counters and percentages
\* whatever its manual_status, and so does replaying the output directory; a
\* report that the validator returns carries no manual_status, and no step but
\* the reviewer's mark changes the manual_status of a report that stays in place
C20_ManualStatusIsAuditOnly ==
    /\ [](\A status \in ManualStatus :
            /\ \A unit \in Units :
                 output_dir[unit].exists
                    => register_report(runner.summary, output_dir[unit].report)
                       = register_report(runner.summary,
                            [output_dir[unit].report EXCEPT !.manual_status = status])
            /\ build_batch_summary(output_dir)
               = build_batch_summary(Remarked(output_dir, status)))
    /\ [][\A unit \in Units :
            \/ output_dir'[unit] = output_dir[unit]
            \/ /\ runner.pc = "idle" /\ UNCHANGED runner
               /\ output_dir'[unit] \in
                     {[output_dir[unit] EXCEPT !.report.manual_status = status] :
                         status \in ManualStatus}
            \/ /\ runner.pc = "loop" /\ runner.index = unit
               /\ audit'.validated = audit.validated \cup {unit}
               /\ output_dir'[unit].report.manual_status = "none"]_vars

\* a stored report that counts as usable is marked invalid, and the summary is
\* then rebuilt from the output directory
C20_Witness ==
    /\ \E unit \in Units :
          /\ output_dir[unit].exists
          /\ output_dir[unit].report.manual_status = "invalid"
          /\ effective_usable(output_dir[unit].report)
    /\ runs = MaxRuns
    /\ runner.pc = "idle"
    /\ summary_file.exists
    /\ summary_file.summary = build_batch_summary(output_dir)
    /\ summary_file.summary.total_usable > 0

(***************************************************************************)
(* Properties of PeopleValidator.validate_extraction                       *)
(***************************************************************************)
PeopleCalled == people_result # PeopleNotCalled

\* a Python index of a sequence of length n, a negative one counted from the end
PyIndex(i, n) == IF i < 0 THEN (IF i + n < 0 THEN 0 ELSE i + n) ELSE Min(i, n)

\* text[start:end] for every integer start and end
PySlice(text, start, end) ==
    Slice(text, PyIndex(start, Len(text)), PyIndex(end, Len(text)))

\* the issues of the returned report about a text-bearing field
IssuesAbout(field) ==
    SelectSeq(people_result.report.issues,
              LAMBDA issue : issue.field \in {field, StartEndField(field)})

IsOne(issues, type, severity) ==
    /\ Len(issues) = 1
    /\ issues[1].type = type
    /\ issues[1].severity = severity

\* C21: for every text-bearing field with a claimed text, whatever the claimed
\* offsets: no issue when the passage slice at the offsets equals the text,
\* exactly one wrong_position error when it does not and the text occurs
\* elsewhere in the passage, exactly one hallucination critical when the text
\* occurs nowhere in the passage
C21_FieldIssueByOccurrence ==
    (PeopleCalled /\ people_result.ends = "returned" /\ Len(people_extracted) = 1) =>
        \A field \in TextFields :
            LET claim == ClaimOf(people_extracted[1], field)
                matches ==
                    PySlice(people_passage, claim.start, claim.end) = claim.text
                occurs == Contains(people_passage, claim.text)
            IN  claim.text # <<>> =>
                    /\ matches => IssuesAbout(field) = <<>>
                    /\ (~matches /\ occurs) =>
                           IsOne(IssuesAbout(field), "wrong_position", "error")
                    /\ ~occurs =>
                           IsOne(IssuesAbout(field), "hallucination", "critical")

\* whether the completeness call fails as C23 names it: an error status of the
\* server, or the transport raising
CompletenessCallFails == people_call.ends \in {"error_status", "transport_error"}

\* C23: whenever the completeness call fails, validate_extraction still returns
\* the report, with every issue recorded before the call kept and exactly one
\* incomplete_extraction issue of severity info appended
C23_FailedCompletenessCallKeepsReport ==
    (PeopleCalled /\ CompletenessCallFails) =>
        /\ people_result.ends = "returned"
        /\ people_result.report.issues =
              Append(RuleIssues(people_extracted, people_passage).issues,
                     PeopleIssue("incomplete_extraction", "info", "completeness_check"))

\* the issues of the returned report about the age offsets
AgeIssues ==
    SelectSeq(people_result.report.issues, LAMBDA issue : issue.field = "age.start/end")

\* C24: an age with a value and both offsets provided gets a wrong_position issue
\* whenever its offsets do not satisfy 0 <= start < end <= len(passage), the
\* case start = end included, and no issue when they do
C24_AgeOffsetsNonDegenerate ==
    (PeopleCalled /\ people_result.ends = "returned" /\ Len(people_extracted) = 1) =>
        LET age == people_extracted[1].age
            sound == 0 <= age.start /\ age.start < age.end
                     /\ age.end <= Len(people_passage)
        IN  (age.has_value /\ age.start # -1 /\ age.end # -1) =>
                IF sound THEN AgeIssues = <<>>
                ELSE \E i \in 1..Len(AgeIssues) : AgeIssues[i].type = "wrong_position"

(***************************************************************************)
(* Properties of the reports the Gemini validator builds                   *)
(***************************************************************************)
\* C22: every issue of a report that validate_extraction returns has no severity
\* set, and a returned report with at least one issue is never counted as usable
\* when it is registered into the batch summary, whatever its verdict
C22_BuiltIssuesNeverUsable ==
    /\ outcome = "returned" =>
          \A i \in 1..Len(gemini_report.issues) :
              gemini_report.issues[i].severity = "none"
    /\ (batch.total_files_processed = 1 /\ gemini_report.issues # <<>>) =>
          batch.total_usable = 0

\* a supported report without missing people that has an issue was registered
C22_Witness ==
    /\ batch.total_files_processed = 1
    /\ gemini_report.verdict = "supported"
    /\ gemini_report.missing_people = <<>>
    /\ gemini_report.issues # <<>>
    /\ batch.total_supported = 1

(***************************************************************************)
(* Properties of SimpleRegexBackend.entities                               *)
(***************************************************************************)
SimpleTokens == Tokenize(simple_sentence, 0)

\* the tokens first..last are a maximal run of name tokens
IsMaximalRun(first, last) ==
    /\ first <= last
    /\ \A i \in first..last : is_name_token(SimpleTokens[i])
    /\ first = 1 \/ ~is_name_token(SimpleTokens[first - 1])
    /\ last = Len(SimpleTokens) \/ ~is_name_token(SimpleTokens[last + 1])

\* the words of an honorific
SplitWords(s) ==
    IF s = <<>> THEN <<>>
    ELSE LET tokens == Tokenize(s, 0)
         IN  [i \in 1..Len(tokens) |-> tokens[i].text]

\* the honorific, in any letter case, is made of the tokens right before first
Precedes(honorific, first) ==
    LET words == SplitWords(honorific)
        from == first - Len(words)
    IN  /\ from >= 1
        /\ \A k \in 1..Len(words) :
              Casefold(Cleaned(SimpleTokens[from + k - 1])) = words[k]

\* the entities emitted for the run that ends with the token last
EmittedFor(last) ==
    {i \in 1..Len(simple_entities.found) :
        simple_entities.found[i].end = SimpleTokens[last].end}

\* C28: for every maximal run of name tokens that is emitted and every honorific
\* of the list, single-word or multi-word, in any letter case: if the honorific
\* immediately precedes the run, the span starts at the honorific and its score
\* includes the bonus; a single-token run whose cleaned token has fewer than 3
\* characters is never emitted
C28_HonorificAbsorbed ==
    simple_entities.called =>
        \A first \in 1..Len(SimpleTokens), last \in 1..Len(SimpleTokens) :
            IsMaximalRun(first, last) =>
                /\ (first = last /\ Len(Cleaned(SimpleTokens[first])) < 3)
                      => EmittedFor(last) = {}
                /\ \A i \in EmittedFor(last), honorific \in HONORIFICS :
                      Precedes(honorific, first) =>
                          LET words == Len(SplitWords(honorific))
                              entity == simple_entities.found[i]
                          IN  /\ entity.start = SimpleTokens[first - words].start
                              /\ entity.score =
                                    SpanScore(10, last - first + 1 + words)

(***************************************************************************)
(* Properties of passage_records and process_article                       *)
(***************************************************************************)
BaselineCalled == base_result # BaselineNotCalled

BaselineFullText == build_full_text(base_article.paragraphs)

\* the offsets of every passage agree with the reconstructed full text
PassagesConsistent(passages) ==
    \A i \in 1..Len(passages) :
        /\ 0 <= passages[i].start
        /\ passages[i].start <= passages[i].end
        /\ passages[i].end <= Len(BaselineFullText)
        /\ Slice(BaselineFullText, passages[i].start, passages[i].end)
              = passages[i].text

\* C25: for every article whose passages satisfy full_text[p.start : p.end] =
\* p.text, process_article returns, and every span it emits is accepted by
\* verify_span against the full text
C25_EmittedSpansVerify ==
    (BaselineCalled /\ PassagesConsistent(base_result.records)) =>
        /\ base_result.ends = "returned"
        /\ \A i \in 1..Len(base_result.spans) :
              verify_span(base_result.spans[i], BaselineFullText).verified

\* a stored passage that starts with whitespace, in which the detector and the
\* NER backend each find a span
C25_Witness ==
    /\ BaselineCalled
    /\ base_article.passages # <<>>
    /\ PassagesConsistent(base_result.records)
    /\ IsSpace(base_result.records[1].text[1])
    /\ base_result.stats.regex_spans >= 1
    /\ base_result.stats.ner_spans >= 1
    /\ \E i \in 1..Len(base_result.spans) : base_result.spans[i].start > 0

\* C26: for every article without stored passages, every passage that
\* passage_records derives from the paragraphs satisfies
\* build_full_text(article)[start:end] = passage text
C26_FallbackPassagesConsistent ==
    (BaselineCalled /\ base_article.passages = <<>>) =>
        PassagesConsistent(base_result.records)

(***************************************************************************)
(* Properties of _normalize_phone                                          *)
(***************************************************************************)
PhoneNational == National(RawDigits(phone_match))

\* C29: a match is accepted if and only if its national number has between 9
\* and 11 digits; an accepted match has a normalized value that starts with 0
\* and an e164 value that is +84 followed by the national number without its
\* leading zero
C29_PhoneAcceptedByNationalLength ==
    phone_result.called =>
        /\ phone_result.value.accepted <=> Len(PhoneNational) \in 9..11
        /\ phone_result.value.accepted =>
              /\ phone_result.value.normalized = PhoneNational
              /\ Head(phone_result.value.normalized) = "0"
              /\ phone_result.value.e164 = <<"+", "8", "4">> \o Tail(PhoneNational)

(***************************************************************************)
(* Properties of HttpFetcher.get                                           *)
(***************************************************************************)
HttpDone == http_call.pc \in {"returned", "raised"}

HttpAttempts == Len(http_call.requests)

\* C30: for every max_retries >= 0, get ends after at most max_retries
\* attempts; it returns the first response without a further attempt, sleeps
\* backoff_seconds * attempt only between two attempts, and after max_retries
\* failures raises the last request error and no other kind of error
HttpOutcomeAsClaimed ==
    /\ HttpAttempts <= http_fetcher.max_retries
    /\ \A i \in 1..(HttpAttempts - 1) : http_call.requests[i] = "error"
    /\ Len(http_call.sleeps) <= HttpAttempts
    /\ HttpDone =>
          http_call.sleeps =
              [i \in 1..(HttpAttempts - 1) |-> http_fetcher.backoff_seconds * i]
    /\ http_call.pc = "returned" => http_call.requests[HttpAttempts] = "response"
    /\ http_call.pc = "raised" =>
          /\ HttpAttempts = http_fetcher.max_retries
          /\ \A i \in 1..HttpAttempts : http_call.requests[i] = "error"
          /\ http_call.raised = RequestError(http_fetcher.max_retries)

C30_GetRetriesThenRaisesLastError ==
    [](http_call.pc # "not_called" => HttpOutcomeAsClaimed)
    /\ (http_call.pc # "not_called" ~> HttpDone)

(***************************************************************************)
(* Properties of the rule-based batch validator                            *)
(***************************************************************************)
\* the validation report files of the output directory
ReportNames(dir) == {name \in InputNames : dir[name] # AbsentFile}

\* C27: after every run, the first or a later one, total_files_processed of
\* _batch_summary.json is the number of report files in the output directory,
\* the summary file not counted; a run that validates no file over a directory
\* that holds a summary leaves the summary as it was
C27_SummaryCountsReportFiles ==
    (reports_run.pc = "done" /\ reports_dir[SummaryName] # AbsentFile) =>
        /\ reports_dir[SummaryName].content.total_files_processed
              = Cardinality(ReportNames(reports_dir))
        /\ (reports_run.success_count = 0
            /\ reports_run.dir_before[SummaryName] # AbsentFile)
              => reports_dir[SummaryName] = reports_run.dir_before[SummaryName]

====
